---- MODULE Spec2Model ----
(***************************************************************************)
(* Model of the filter-to-SQL compiler of the audience backend             *)
(* (src/src/services/AudienceBigQueryAdapter.ts, second class of the file, *)
(* lines 359-1012) and of the warehouse executor it hands SQL to.          *)
(*                                                                         *)
(* Text.  A JavaScript string is modelled as a sequence of atoms.  Data    *)
(* that comes from the caller (aliases, field names, values, join          *)
(* conditions, table names) is a sequence of one-character atoms.  The     *)
(* fixed fragments of the template literals of the code are lexemes: one   *)
(* atom per fragment (" AND ", " LIKE ", "WHERE ", ...), with the runs of   *)
(* white space of the template written as one space.  One-character        *)
(* fragments of the code ("(", ")", "'", ".") are the characters           *)
(* themselves, so that they can collide with data as they do in the code.  *)
(* Field names and table names are only compared whole and concatenated,   *)
(* never searched, and are one atom each.                                  *)
(***************************************************************************)
EXTENDS Integers, Sequences, FiniteSets, TLC

VARIABLES defaultConnectionId, op, args, pc, queries, ret, history
VARIABLES requests, cohort, now, job, call, http, countedFor

\* the state of one request against the adapter
requestVars == <<op, args, pc, ret, history>>

\* the state of the services built on the adapter
cohortVars == <<cohort, now, job, call, countedFor>>

serviceVars == <<requests, cohortVars, http>>

vars ==
  <<defaultConnectionId, op, args, pc, queries, ret, history, serviceVars>>

(***************************************************************************)
(* Bounds of the model.                                                    *)
(***************************************************************************)
MaxFilters == 3
MaxSideFilters == 1
MaxStrLen == 4
MaxRows == 26
MaxCount == 1
MaxCalls == 2
MaxClock == 36
MaxObjects == 3
MaxRelationships == 2

(***************************************************************************)
(* JavaScript values that are not text.                                    *)
(***************************************************************************)
NULL == "null"
UNDEFINED == "undefined"

(***************************************************************************)
(* Generic text helpers: Array.prototype.join, String.prototype.includes,  *)
(* Number.prototype.toString.                                              *)
(***************************************************************************)
RECURSIVE Join(_, _)
Join(parts, sep) ==
  IF Len(parts) = 0 THEN <<>>
  ELSE IF Len(parts) = 1 THEN parts[1]
  ELSE parts[1] \o sep \o Join(Tail(parts), sep)

Includes(hay, needle) ==
  \E i \in 1..(Len(hay) - Len(needle) + 1) :
     SubSeq(hay, i, i + Len(needle) - 1) = needle

DigitChars == <<"0", "1", "2", "3", "4", "5", "6", "7", "8", "9">>

RECURSIVE NumToString(_)
NumToString(n) ==
  IF n < 10 THEN <<DigitChars[n + 1]>>
  ELSE NumToString(n \div 10) \o <<DigitChars[(n % 10) + 1]>>

(***************************************************************************)
(* Filter values: string | number | string[]                               *)
(***************************************************************************)
StrVal(s) == [type |-> "string", s |-> s, n |-> 0, a |-> <<>>]
NumVal(n) == [type |-> "number", s |-> <<>>, n |-> n, a |-> <<>>]
ArrVal(a) == [type |-> "array", s |-> <<>>, n |-> 0, a |-> a]

(***************************************************************************)
(* formatValue (lines 998-1009)                                            *)
(***************************************************************************)
\* value.replace("'", "''") without the g flag: only the first quote is doubled
ReplaceFirstQuote(s) ==
  IF \E i \in 1..Len(s) : s[i] = "'"
  THEN LET i == CHOOSE k \in 1..Len(s) :
                   s[k] = "'" /\ \A j \in 1..(k - 1) : s[j] # "'"
       IN SubSeq(s, 1, i) \o <<"'">> \o SubSeq(s, i + 1, Len(s))
  ELSE s

\* value.replace(/'/g, "''")
RECURSIVE ReplaceQuotes(_)
ReplaceQuotes(s) ==
  IF Len(s) = 0 THEN <<>>
  ELSE (IF Head(s) = "'" THEN <<"'", "'">> ELSE <<Head(s)>>)
       \o ReplaceQuotes(Tail(s))

FormatString(s) == <<"'">> \o ReplaceQuotes(s) \o <<"'">>

formatValue(value) ==
  IF value.type = "string" THEN FormatString(value.s)
  ELSE IF value.type = "number" THEN NumToString(value.n)
  ELSE Join([i \in 1..Len(value.a) |-> FormatString(value.a[i])], <<", ">>)

(***************************************************************************)
(* mapFilterFieldToBigQueryField (lines 965-993): fieldMapping[field] ||   *)
(* field.  The entries that map a name to itself are left to the default.  *)
(***************************************************************************)
\* the keys of fieldMapping (lines 966-990)
FieldMappingKeys ==
  {"Account_size", "Account_country", "Account_industry", "company_name",
   "opportunity_stage", "page_views", "referrer_domain", "utm_params",
   "Linkedin_Followers", "Intent_Score", "job_title", "seniority_level",
   "first_name", "last_name", "email", "email_opens", "email_clicks",
   "website_visits", "content_downloads", "social_engagement"}

mapFilterFieldToBigQueryField(field) ==
  CASE field = "Account_size" -> "employee_count"
    [] field = "Account_country" -> "country"
    [] field = "Account_industry" -> "industry"
    [] field = "Linkedin_Followers" -> "linkedin_followers"
    [] field = "Intent_Score" -> "intent_score"
    [] OTHER -> field

(***************************************************************************)
(* buildSingleFilterCondition (lines 909-960)                              *)
(* fields is a sequence of [name, isDisplayable, isFilterable]; an absent  *)
(* fields argument is the empty sequence (both take the else branch).      *)
(***************************************************************************)
\* '%' + value + '%' as a template literal: it applies String(value)
TemplateString(value) ==
  IF value.type = "string" THEN value.s
  ELSE IF value.type = "number" THEN NumToString(value.n)
  ELSE Join(value.a, <<",">>)

LikePattern(value) == StrVal(<<"%">> \o TemplateString(value) \o <<"%">>)

FormattedValues(value) ==
  Join([i \in 1..Len(value.a) |-> formatValue(StrVal(value.a[i]))], <<", ">>)

\* a field the catalog does not hold goes through the legacy mapping
actualFieldNameWithFallback(filter, fields) ==
  IF \E k \in 1..Len(fields) : fields[k].name = filter.field
  THEN filter.field
  ELSE mapFilterFieldToBigQueryField(filter.field)

\* lines 915-923
actualFieldName(filter, fields) ==
  IF Len(fields) > 0
  THEN IF \E k \in 1..Len(fields) : fields[k].name = filter.field
       THEN LET k == CHOOSE j \in 1..Len(fields) :
                       /\ fields[j].name = filter.field
                       /\ \A h \in 1..(j - 1) : fields[h].name # filter.field
            IN fields[k].name
       ELSE filter.field
  ELSE mapFilterFieldToBigQueryField(filter.field)

buildSingleFilterCondition(filter, tableAlias, fields) ==
  LET fieldName == tableAlias \o <<".">> \o <<actualFieldName(filter, fields)>>
      operator == filter.operator
      value == filter.value
  IN CASE operator = "equals" -> fieldName \o <<" = ">> \o formatValue(value)
       [] operator = "not_equals" -> fieldName \o <<" != ">> \o formatValue(value)
       [] operator = "greater_than" -> fieldName \o <<" > ">> \o formatValue(value)
       [] operator = "less_than" -> fieldName \o <<" < ">> \o formatValue(value)
       [] operator = "contains" ->
            fieldName \o <<" LIKE ">> \o formatValue(LikePattern(value))
       [] operator = "not_contains" ->
            fieldName \o <<" NOT LIKE ">> \o formatValue(LikePattern(value))
       [] operator = "in" ->
            IF value.type = "array"
            THEN fieldName \o <<" IN (">> \o FormattedValues(value) \o <<")">>
            ELSE fieldName \o <<" = ">> \o formatValue(value)
       [] operator = "not_in" ->
            IF value.type = "array"
            THEN fieldName \o <<" NOT IN (">> \o FormattedValues(value) \o <<")">>
            ELSE fieldName \o <<" != ">> \o formatValue(value)
       [] OTHER -> fieldName \o <<" = ">> \o formatValue(value)

(***************************************************************************)
(* buildFilterConditions (lines 850-904)                                   *)
(* logicalOperator is "AND", "OR" or UNDEFINED (absent).                   *)
(***************************************************************************)
\* the separator ignores the running connector
ConnectorAlwaysAnd(currentLogicalOp) == <<" AND ">>

\* the separator " " + (currentLogicalOp || "AND") + " "
Connector(currentLogicalOp) ==
  IF currentLogicalOp = "OR" THEN <<" OR ">> ELSE <<" AND ">>

\* every closed group is parenthesized, also a group of one condition
CloseGroupAlwaysParen(currentGroup, currentLogicalOp) ==
  <<"(">> \o Join(currentGroup, Connector(currentLogicalOp)) \o <<")">>

\* lines 880-885 and 895-900: join the group, parenthesize it when it has
\* more than one condition
CloseGroup(currentGroup, currentLogicalOp) ==
  LET groupCondition == Join(currentGroup, Connector(currentLogicalOp))
  IN IF Len(currentGroup) > 1
     THEN <<"(">> \o groupCondition \o <<")">>
     ELSE groupCondition

\* the running group is never closed
SameConnectorAlways(logicalOperator, currentLogicalOp) == TRUE

\* line 874: filter.logicalOperator === currentLogicalOp
SameConnector(logicalOperator, currentLogicalOp) ==
  logicalOperator = currentLogicalOp

\* lines 868-889: the branch of one iteration, given the condition built
\* for its filter; st is the triple of locals
\* [conditions, currentGroup, currentLogicalOp]
Regroup(st, filter, i, condition) ==
  IF i = 1
  THEN [conditions |-> st.conditions,
        currentGroup |-> Append(st.currentGroup, condition),
        currentLogicalOp |-> filter.logicalOperator]
  ELSE IF SameConnector(filter.logicalOperator, st.currentLogicalOp)
  THEN [st EXCEPT !.currentGroup = Append(@, condition)]
  ELSE [conditions |->
          IF Len(st.currentGroup) > 0
          THEN Append(st.conditions,
                      CloseGroup(st.currentGroup, st.currentLogicalOp))
          ELSE st.conditions,
        currentGroup |-> <<condition>>,
        currentLogicalOp |-> filter.logicalOperator]

\* one iteration of the loop of lines 861-891
LoopStep(st, filter, i, tableAlias, fields) ==
  Regroup(st, filter, i,
          buildSingleFilterCondition(filter, tableAlias, fields))

RECURSIVE Loop(_, _, _, _, _)
Loop(st, filters, i, tableAlias, fields) ==
  IF i > Len(filters) THEN st
  ELSE Loop(LoopStep(st, filters[i], i, tableAlias, fields),
            filters, i + 1, tableAlias, fields)

\* the groups are joined by OR instead of AND
JoinGroupsOr(conditions) == Join(conditions, <<" OR ">>)

\* line 903: conditions.join(" AND ")
JoinGroups(conditions) == Join(conditions, <<" AND ">>)

\* the group still open after the loop is forgotten
CloseLastGroupSkipped(st) == st.conditions

\* lines 893-901: the last group is closed after the loop
CloseLastGroup(st) ==
  IF Len(st.currentGroup) > 0
  THEN Append(st.conditions,
              CloseGroup(st.currentGroup, st.currentLogicalOp))
  ELSE st.conditions

buildFilterConditions(filters, tableAlias, fields) ==
  IF Len(filters) = 0 THEN <<>>
  ELSE JoinGroups(CloseLastGroup(
         Loop([conditions |-> <<>>, currentGroup |-> <<>>,
               currentLogicalOp |-> UNDEFINED],
              filters, 1, tableAlias, fields)))

(***************************************************************************)
(* generateCohortSQL (lines 387-486)                                       *)
(* audienceConfig is [objects, relationships]; an object entry is          *)
(* [object |-> [bigqueryTable, fields], alias]; a relationship is          *)
(* [joinCondition].  limit is <<>> when absent and <<n>> when given.       *)
(***************************************************************************)
RECURSIVE Flatten(_)
Flatten(seqs) ==
  IF Len(seqs) = 0 THEN <<>> ELSE Head(seqs) \o Flatten(Tail(seqs))

\* line 411: object.fields.filter((f) => f.isDisplayable)
RECURSIVE DisplayFields(_)
DisplayFields(fields) ==
  IF Len(fields) = 0 THEN <<>>
  ELSE (IF Head(fields).isDisplayable THEN <<Head(fields)>> ELSE <<>>)
       \o DisplayFields(Tail(fields))

\* the backquote character of the quoted table names
BT == "<backquote>"

\* lines 411-416
SelectFieldsOf(obj) ==
  LET displayFields == DisplayFields(obj.object.fields)
  IN [k \in 1..Len(displayFields) |->
        obj.alias \o <<".", displayFields[k].name, " as ">>
        \o obj.alias \o <<"_", displayFields[k].name>>]

\* line 420
FromClause(obj) ==
  <<BT, "{project}", ".", obj.object.bigqueryTable, BT, " ">> \o obj.alias

\* line 424: r.joinCondition.includes(alias)
MatchesAlias(r, alias) == Includes(r.joinCondition, alias)

\* the last matching relationship is taken
FindRelationshipLast(relationships, alias) ==
  LET hits == {k \in 1..Len(relationships) :
                 MatchesAlias(relationships[k], alias)}
  IN IF hits = {} THEN <<>>
     ELSE <<relationships[CHOOSE k \in hits : \A h \in hits : h <= k]>>

\* lines 423-425: relationships.find(...); <<>> is undefined
FindRelationship(relationships, alias) ==
  LET hits == {k \in 1..Len(relationships) :
                 MatchesAlias(relationships[k], alias)}
  IN IF hits = {} THEN <<>>
     ELSE <<relationships[CHOOSE k \in hits : \A h \in hits : k <= h]>>

\* lines 426-430: the JOIN clauses pushed for the object at index i > 1
JoinClausesOf(obj, relationships) ==
  LET relationship == FindRelationship(relationships, obj.alias)
  IN IF Len(relationship) > 0
     THEN <<<<"JOIN ", BT, "{project}", ".", obj.object.bigqueryTable,
              BT, " ">> \o obj.alias \o <<" ON ">>
            \o relationship[1].joinCondition>>
     ELSE <<>>

\* the limit is read from the adapter's state instead of the argument
LimitClauseFromState(limit) ==
  IF defaultConnectionId # NULL THEN <<" LIMIT ">> \o NumToString(1) ELSE <<>>

\* lines 481-483: if (limit) the clause LIMIT limit is appended
LimitClause(limit) ==
  IF Len(limit) = 1 /\ limit[1] # 0
  THEN <<" LIMIT ">> \o NumToString(limit[1])
  ELSE <<>>

\* lines 457-459 and 472-474: a non-empty side is pushed in parentheses
PushConditions(conditions) ==
  IF Len(conditions) > 0 THEN <<<<"(">> \o conditions \o <<")">>>> ELSE <<>>

\* lines 477-479
WhereOf(whereConditions) ==
  IF Len(whereConditions) > 0
  THEN <<" WHERE ">> \o Join(whereConditions, <<" AND ">>)
  ELSE <<>>

\* lines 446-478
WhereClause(filters, objects) ==
  WhereOf(
    PushConditions(
      IF Len(filters.companyFilters) > 0 /\ Len(objects) > 0
      THEN buildFilterConditions(filters.companyFilters, objects[1].alias,
                                 objects[1].object.fields)
      ELSE <<>>)
    \o PushConditions(
      IF Len(filters.contactFilters) > 0 /\ Len(objects) > 1
      THEN buildFilterConditions(filters.contactFilters, objects[2].alias,
                                 objects[2].object.fields)
      ELSE <<>>))

generateCohortSQL(filters, audienceConfig, limit) ==
  LET objects == audienceConfig.objects
      relationships == audienceConfig.relationships
      selectFields ==
        Flatten([i \in 1..Len(objects) |-> SelectFieldsOf(objects[i])])
      fromClauses ==
        IF Len(objects) > 0 THEN <<FromClause(objects[1])>> ELSE <<>>
      joinClauses ==
        Flatten([i \in 1..Len(objects) |->
                   IF i = 1 THEN <<>>
                   ELSE JoinClausesOf(objects[i], relationships)])
  IN <<"SELECT DISTINCT ">> \o Join(selectFields, <<", ">>)
     \o <<" FROM ">> \o Join(fromClauses, <<", ">>)
     \o (IF Len(joinClauses) > 0
         THEN <<" ">> \o Join(joinClauses, <<" ">>) ELSE <<>>)
     \o WhereClause(filters, objects)
     \o LimitClause(limit)

(***************************************************************************)
(* The two-stage queries of getCohortCountsWithConfig (lines 572-685) and  *)
(* getCohortPreviewWithConfig (lines 690-809).                             *)
(***************************************************************************)
CompanyMarker == "ic_acc_name"
ContactMarker == "ic_fname"

\* the first object stands in when no object carries the marker
FindObjectOrFirst(objects, marker) ==
  LET Has(o) == \E k \in 1..Len(o.object.fields) :
                   o.object.fields[k].name = marker
      hits == {i \in 1..Len(objects) : Has(objects[i])}
  IN IF hits = {} THEN (IF Len(objects) > 0 THEN <<objects[1]>> ELSE <<>>)
     ELSE <<objects[CHOOSE i \in hits : \A h \in hits : i <= h]>>

\* objects.find((o) => o.object.fields.some((f) => f.name === marker))
FindObject(objects, marker) ==
  LET Has(o) == \E k \in 1..Len(o.object.fields) :
                   o.object.fields[k].name = marker
      hits == {i \in 1..Len(objects) : Has(objects[i])}
  IN IF hits = {} THEN <<>>
     ELSE <<objects[CHOOSE i \in hits : \A h \in hits : i <= h]>>

QuotedTable(obj) == <<BT, obj.object.bigqueryTable, BT>>

\* the clause is built from the other list of filters
FilterClauseSwapped(filters, obj, side) ==
  LET list == IF side = "company" THEN filters.contactFilters
              ELSE filters.companyFilters
      conditions == buildFilterConditions(list, obj.alias, obj.object.fields)
  IN IF Len(conditions) > 0 THEN <<"WHERE ">> \o conditions ELSE <<>>

\* lines 607-614 and 636-643 (728-744 in the preview)
FilterClause(filters, obj, side) ==
  LET list == IF side = "company" THEN filters.companyFilters
              ELSE filters.contactFilters
      conditions == buildFilterConditions(list, obj.alias, obj.object.fields)
  IN IF Len(conditions) > 0 THEN <<"WHERE ">> \o conditions ELSE <<>>

\* line 634 and line 798
JoinClause(contactAlias) ==
  <<"INNER JOIN qualified_companies qc ON ">> \o contactAlias
  \o <<".SalesForceID = qc.SalesForceID">>

\* the CTE is narrowed by the contact filters as well
CountCTEWithContacts(filters, companyObject) ==
  <<"qualified_companies AS ( SELECT DISTINCT ">> \o companyObject.alias
  \o <<".SalesForceID FROM ">> \o QuotedTable(companyObject) \o <<" ">>
  \o companyObject.alias \o <<" ">>
  \o FilterClause(filters, companyObject, "company")
  \o FilterClause(filters, companyObject, "contact") \o <<" )">>

\* lines 616-622
CountCTE(filters, companyObject) ==
  <<"qualified_companies AS ( SELECT DISTINCT ">> \o companyObject.alias
  \o <<".SalesForceID FROM ">> \o QuotedTable(companyObject) \o <<" ">>
  \o companyObject.alias \o <<" ">>
  \o FilterClause(filters, companyObject, "company") \o <<" )">>

\* lines 645-659
CountSQL(filters, companyObject, contactObject) ==
  <<"WITH ">> \o CountCTE(filters, companyObject)
  \o <<" SELECT (SELECT COUNT(DISTINCT SalesForceID) FROM qualified_companies) AS company_count, ( SELECT COUNT(DISTINCT ">>
  \o contactObject.alias \o <<".ic_cntid) FROM ">>
  \o QuotedTable(contactObject) \o <<" ">> \o contactObject.alias \o <<" ">>
  \o JoinClause(contactObject.alias) \o <<" ">>
  \o FilterClause(filters, contactObject, "contact")
  \o <<" ) AS people_count">>

\* the row cap of the preview queries (lines 776 and 800)
PreviewLimit == 25

\* the cap follows the limit of the request
PreviewLimitClauseRequested ==
  <<" LIMIT ">> \o NumToString(args.requestedLimit) \o <<";">>

\* "LIMIT 25;" of lines 776 and 800
PreviewLimitClause ==
  <<" LIMIT ">> \o NumToString(PreviewLimit) \o <<";">>

\* lines 746-770; the list of selected columns is one lexeme
PreviewCTE(filters, companyObject) ==
  <<"qualified_companies AS ( SELECT DISTINCT ">> \o companyObject.alias
  \o <<".<company columns> FROM ">> \o QuotedTable(companyObject) \o <<" ">>
  \o companyObject.alias \o <<" ">>
  \o FilterClause(filters, companyObject, "company") \o <<" )">>

\* lines 772-777
CompanyPreviewSQL(filters, companyObject) ==
  <<"WITH ">> \o PreviewCTE(filters, companyObject)
  \o <<" SELECT * FROM qualified_companies">>
  \o PreviewLimitClause

\* lines 779-801
ContactPreviewSQL(filters, companyObject, contactObject) ==
  <<"WITH ">> \o PreviewCTE(filters, companyObject)
  \o <<" SELECT DISTINCT ">> \o contactObject.alias
  \o <<".<contact columns> FROM ">> \o QuotedTable(contactObject) \o <<" ">>
  \o contactObject.alias \o <<" ">>
  \o JoinClause(contactObject.alias) \o <<" ">>
  \o FilterClause(filters, contactObject, "contact")
  \o PreviewLimitClause

(***************************************************************************)
(* The warehouse behind BigQueryService.executeQuery                       *)
(* (src/unnamed/part_010, lines 480-534).  A query is answered with rows   *)
(* or fails.  A query with a LIMIT clause is answered with at most that    *)
(* many rows; the count query is answered with at most one row.            *)
(***************************************************************************)
IsDigit(c) == \E d \in 1..10 : DigitChars[d] = c

DigitValue(c) == (CHOOSE d \in 1..10 : DigitChars[d] = c) - 1

RECURSIVE ParseNat(_, _, _)
ParseNat(text, i, acc) ==
  IF i <= Len(text) /\ IsDigit(text[i])
  THEN ParseNat(text, i + 1, 10 * acc + DigitValue(text[i]))
  ELSE acc

HasLimit(sql) == \E i \in 1..Len(sql) : sql[i] = " LIMIT "

RowLimit(sql) ==
  LET i == CHOOSE k \in 1..Len(sql) :
             sql[k] = " LIMIT " /\ \A h \in (k + 1)..Len(sql) : sql[h] # " LIMIT "
  IN ParseNat(sql, i + 1, 0)

IsCountQuery(sql) ==
  \E i \in 1..Len(sql) :
    sql[i] \in {" ) AS people_count", " COUNT(DISTINCT c.id) as people_count"}

\* the numbers of rows a table of the warehouse can hold
RowCounts == {0, 1} \cup ((PreviewLimit - 1)..MaxRows)

Rows(n) == [i \in 1..n |-> i]

Min(a, b) == IF a <= b THEN a ELSE b

\* the results the warehouse can give to a query
QueryResults(sql) ==
  IF IsCountQuery(sql)
  THEN {<<>>} \cup {<<[company_count |-> c, people_count |-> p]>> :
                      c \in 0..MaxCount, p \in 0..MaxCount}
  ELSE {Rows(IF HasLimit(sql) THEN Min(n, RowLimit(sql)) ELSE n) :
          n \in RowCounts}

\* the messages of the errors executeQuery throws
ExecutorErrors ==
  {<<"Connection not found">>, <<"Connection is not active">>,
   <<"Failed to execute BigQuery query">>}

Query(connId, sql) ==
  [connId |-> connId, sql |-> sql, status |-> "pending", rows |-> <<>>,
   error |-> <<>>]

(***************************************************************************)
(* Inputs of the model.                                                    *)
(***************************************************************************)
ConnectionIds == {"conn1", "conn2"}

Chars == {"a", "'", "%"}

Strings == UNION {[1..k -> Chars] : k \in 0..MaxStrLen}

ShortStrings == {<<>>, <<"a">>, <<"'">>, <<"a", "'">>}

Values ==
  {StrVal(s) : s \in Strings}
  \cup {NumVal(n) : n \in {0, 7, 25, 100}}
  \cup {ArrVal(a) : a \in UNION {[1..k -> ShortStrings] : k \in 0..2}}

USA == <<"U", "S", "A">>
Director == <<"D", "i", "r", "e", "c", "t", "o", "r">>
OBrien == <<"O", "'", "B", "r", "i", "e", "n">>

Field(name, displayable, filterable) ==
  [name |-> name, isDisplayable |-> displayable, isFilterable |-> filterable]

CompanyFields ==
  <<Field("ic_acc_name", TRUE, TRUE), Field("country", TRUE, TRUE),
    Field("employee_count", FALSE, TRUE)>>

ContactFields ==
  <<Field("ic_fname", TRUE, TRUE), Field("job_title", TRUE, TRUE),
    Field("country", FALSE, FALSE)>>

EventFields == <<Field("page_views", TRUE, TRUE)>>

Filter(field, operator, value, logicalOperator) ==
  [field |-> field, operator |-> operator, value |-> value,
   logicalOperator |-> logicalOperator]

LogicalOperators == {"AND", "OR", UNDEFINED}

\* the conditions a filter of the lists of BuildFilterConditions can carry
FilterBodies ==
  {<<"country", "equals", StrVal(USA)>>,
   <<"employee_count", "greater_than", NumVal(100)>>,
   <<"job_title", "contains", StrVal(OBrien)>>}

Filters ==
  {Filter(b[1], b[2], b[3], l) : b \in FilterBodies, l \in LogicalOperators}

FilterLists == UNION {[1..k -> Filters] : k \in 0..MaxFilters}

\* the filters of the calls of buildSingleFilterCondition
SingleFilters ==
  {Filter(field, operator, value, UNDEFINED) :
     field \in {"country", "job_title", "Account_country", "Account_size",
                "nickname"},
     operator \in {"equals", "not_equals", "greater_than", "less_than",
                   "contains", "not_contains", "in", "not_in", "between"},
     value \in {StrVal(USA), NumVal(7), ArrVal(<<USA, OBrien>>)}}

\* the filters of a request: {companyFilters, contactFilters}
CountryIsUSA == Filter("country", "equals", StrVal(USA), UNDEFINED)
TitleHasDirector == Filter("job_title", "contains", StrVal(Director), UNDEFINED)

SideFilterLists ==
  UNION {[1..k -> {CountryIsUSA, TitleHasDirector}] : k \in 0..MaxSideFilters}

CohortFilterSets ==
  {[companyFilters |-> c, contactFilters |-> p] :
     c \in SideFilterLists, p \in SideFilterLists}

Object(table, fields, alias) ==
  [object |-> [bigqueryTable |-> table, fields |-> fields], alias |-> alias]

Company(alias) == Object("accounts", CompanyFields, alias)
Contact(alias) == Object("contacts", ContactFields, alias)
Event(alias) == Object("events", EventFields, alias)

ObjectLists ==
  {<<>>,
   <<Company(<<"c">>)>>,
   <<Company(<<"c">>), Contact(<<"p">>)>>,
   <<Contact(<<"p">>), Company(<<"c">>)>>,
   <<Company(<<"c", "o">>), Contact(<<"p">>)>>,
   <<Company(<<"c">>), Contact(<<"p">>), Event(<<"e">>)>>,
   <<Event(<<"e">>), Contact(<<"p">>)>>}

Relationship(joinCondition) == [joinCondition |-> joinCondition]

CompanyContact == Relationship(<<"c", ".", "k", "=", "p", ".", "k">>)
Unrelated == Relationship(<<"x", ".", "k", "=", "y", ".", "k">>)
ContactEvent == Relationship(<<"p", ".", "k", "=", "e", ".", "k">>)
CoContact == Relationship(<<"c", "o", ".", "k", "=", "p", ".", "k">>)

RelationshipLists ==
  {<<>>, <<CompanyContact>>, <<Unrelated>>,
   <<ContactEvent, CompanyContact>>, <<CoContact, CompanyContact>>}

AudienceConfigs ==
  {[objects |-> o, relationships |-> r] :
     o \in ObjectLists, r \in RelationshipLists}

\* the configurations of the calls of getCohortCountsWithConfig and
\* getCohortPreviewWithConfig, which read the objects only
TwoStageConfigs ==
  {c \in AudienceConfigs : c.relationships \in {<<>>, <<CompanyContact>>}}

\* the configurations of the calls of executeCohortQuery
ListingConfigs ==
  {[objects |-> o, relationships |-> r] :
     o \in {<<>>, <<Company(<<"c">>), Contact(<<"p">>)>>,
            <<Contact(<<"p">>), Company(<<"c">>)>>},
     r \in {<<>>, <<CompanyContact>>}}

Limits == {<<>>, <<0>>, <<3>>}

RequestedLimits == {PreviewLimit, MaxRows}

(***************************************************************************)
(* State machine.  A behaviour follows one request against the adapter:    *)
(* op is the operation and args its arguments, pc its progress, queries    *)
(* the queries it has handed to the executor, ret what it returned or      *)
(* threw, history the record of the calls of generateCohortSQL completed   *)
(* so far.  setDefaultConnectionId can be called at any time.              *)
(***************************************************************************)
NoRet == [status |-> "none"]

Error(message) == [status |-> "error", message |-> message]

NoConnection ==
  Error(<<"No BigQuery connection ID provided. Please set a default connection or pass one explicitly.">>)

MissingObject == Error(<<"Missing company or contact object configuration">>)

\* what executeCohortQuery makes of the settled query (lines 514-523)
ListingResultSwallowed(query) ==
  [status |-> "ok", rows |-> query.rows]

ListingResult(query) ==
  IF query.status = "rejected"
  THEN Error(<<"Failed to execute cohort query: ">> \o query.error)
  ELSE [status |-> "ok", rows |-> query.rows]

\* what getCohortCountsWithConfig makes of the settled query (lines 670-684)
CountsResultEmptyThrows(query) ==
  IF query.status = "rejected" \/ Len(query.rows) = 0
  THEN Error(<<"Failed to get cohort counts: ">> \o query.error)
  ELSE [status |-> "ok", companyCount |-> query.rows[1].company_count,
        peopleCount |-> query.rows[1].people_count]

CountsResult(query) ==
  IF query.status = "rejected"
  THEN Error(<<"Failed to get cohort counts: ">> \o query.error)
  ELSE IF Len(query.rows) = 0
  THEN [status |-> "ok", companyCount |-> 0, peopleCount |-> 0]
  ELSE [status |-> "ok", companyCount |-> query.rows[1].company_count,
        peopleCount |-> query.rows[1].people_count]

\* Promise.all over the two preview queries (lines 803-806): rejected with
\* the error of the first query to fail, fulfilled once both are
PromiseAllWaitsForAll(qs) ==
  IF \E i \in 1..Len(qs) : qs[i].status = "pending" THEN "pending"
  ELSE IF \E i \in 1..Len(qs) : qs[i].status = "rejected" THEN "rejected"
  ELSE "fulfilled"

PromiseAll(qs) ==
  IF \E i \in 1..Len(qs) : qs[i].status = "rejected" THEN "rejected"
  ELSE IF \A i \in 1..Len(qs) : qs[i].status = "resolved" THEN "fulfilled"
  ELSE "pending"

Init ==
  /\ defaultConnectionId = NULL
  /\ pc = "idle"
  /\ queries = <<>>
  /\ ret = NoRet
  /\ history = <<>>
  /\ requests = <<>>
  /\ cohort = NULL
  /\ now = 0
  /\ job = <<>>
  /\ call = <<>>
  /\ countedFor = <<>>
  /\ http = <<>>
  /\ \/ /\ op = "formatValue"
        /\ \E value \in Values : args = [value |-> value]
     \/ /\ op = "buildFilterConditions"
        /\ \E filters \in FilterLists, fields \in {<<>>, CompanyFields} :
             args = [filters |-> filters, tableAlias |-> <<"a">>,
                     fields |-> fields]
     \/ /\ op = "buildSingleFilterCondition"
        /\ \E filter \in SingleFilters,
              fields \in {<<>>, CompanyFields, ContactFields} :
             args = [filter |-> filter, tableAlias |-> <<"c">>,
                     fields |-> fields]
     \/ /\ op = "generateCohortSQL"
        /\ \E filters \in CohortFilterSets, audienceConfig \in AudienceConfigs,
              limit \in Limits :
             args = [filters |-> filters, audienceConfig |-> audienceConfig,
                     limit |-> limit]
     \/ /\ op = "executeCohortQuery"
        /\ \E filters \in CohortFilterSets, audienceConfig \in ListingConfigs,
              limit \in Limits, connectionId \in {UNDEFINED, "conn1"} :
             args = [filters |-> filters, audienceConfig |-> audienceConfig,
                     limit |-> limit, connectionId |-> connectionId]
     \/ /\ op = "getCohortCountsWithConfig"
        /\ \E filters \in CohortFilterSets, audienceConfig \in TwoStageConfigs,
              connectionId \in {UNDEFINED, "conn1"} :
             args = [filters |-> filters, audienceConfig |-> audienceConfig,
                     connectionId |-> connectionId]
     \/ /\ op = "getCohortPreviewWithConfig"
        /\ \E filters \in CohortFilterSets, audienceConfig \in TwoStageConfigs,
              connectionId \in {UNDEFINED, "conn1"},
              requestedLimit \in RequestedLimits :
             args = [filters |-> filters, audienceConfig |-> audienceConfig,
                     connectionId |-> connectionId,
                     requestedLimit |-> requestedLimit]

\* setDefaultConnectionId (lines 380-382)
SetDefaultConnectionId ==
  \E connectionId \in ConnectionIds :
    /\ defaultConnectionId # connectionId
    /\ defaultConnectionId' = connectionId
    /\ UNCHANGED <<op, args, pc, queries, ret, history, serviceVars>>

\* a call of formatValue (lines 998-1009)
FormatValue ==
  /\ op = "formatValue"
  /\ pc = "idle"
  /\ pc' = "done"
  /\ ret' = [status |-> "ok", text |-> formatValue(args.value)]
  /\ UNCHANGED <<defaultConnectionId, op, args, queries, history, serviceVars>>

\* a call of buildFilterConditions (lines 850-904)
BuildFilterConditions ==
  /\ op = "buildFilterConditions"
  /\ pc = "idle"
  /\ pc' = "done"
  /\ ret' = [status |-> "ok",
             text |-> buildFilterConditions(args.filters, args.tableAlias,
                                            args.fields)]
  /\ UNCHANGED <<defaultConnectionId, op, args, queries, history, serviceVars>>

\* a call of buildSingleFilterCondition (lines 908-958)
BuildSingleFilterCondition ==
  /\ op = "buildSingleFilterCondition"
  /\ pc = "idle"
  /\ pc' = "done"
  /\ ret' = [status |-> "ok",
             text |-> buildSingleFilterCondition(args.filter, args.tableAlias,
                                                 args.fields)]
  /\ UNCHANGED <<defaultConnectionId, op, args, queries, history, serviceVars>>

\* a call of generateCohortSQL (lines 387-486); it can be repeated
GenerateCohortSQL ==
  /\ op = "generateCohortSQL"
  /\ pc \in {"idle", "done"}
  /\ Len(history) < MaxCalls
  /\ pc' = "done"
  /\ ret' = [status |-> "ok",
             sql |-> generateCohortSQL(args.filters, args.audienceConfig,
                                       args.limit)]
  /\ UNCHANGED <<defaultConnectionId, op, args, queries, serviceVars>>
  /\ history' = Append(history,
                       [sql |-> ret'.sql, args |-> args, argsAfter |-> args',
                        connBefore |-> defaultConnectionId,
                        connAfter |-> defaultConnectionId'])

\* executeCohortQuery up to its await (lines 491-514)
ExecuteCohortQuery ==
  /\ op = "executeCohortQuery"
  /\ pc = "idle"
  /\ LET sql == generateCohortSQL(args.filters, args.audienceConfig,
                                  args.limit)
         connId == IF args.connectionId # UNDEFINED THEN args.connectionId
                   ELSE defaultConnectionId
     IN IF connId = NULL
        THEN pc' = "done" /\ ret' = NoConnection /\ queries' = queries
        ELSE pc' = "awaiting" /\ ret' = ret /\ queries' = <<Query(connId, sql)>>
  /\ UNCHANGED <<defaultConnectionId, op, args, history, serviceVars>>

\* executeCohortQuery after its await (lines 514-523)
ExecuteCohortQueryReturn ==
  /\ op = "executeCohortQuery"
  /\ pc = "awaiting"
  /\ queries[1].status # "pending"
  /\ pc' = "done"
  /\ ret' = ListingResult(queries[1])
  /\ UNCHANGED <<defaultConnectionId, op, args, queries, history, serviceVars>>

\* getCohortCountsWithConfig up to its await (lines 585-670)
GetCohortCountsWithConfig ==
  /\ op = "getCohortCountsWithConfig"
  /\ pc = "idle"
  /\ LET objects == args.audienceConfig.objects
         companyObject == FindObject(objects, CompanyMarker)
         contactObject == FindObject(objects, ContactMarker)
         connId == IF args.connectionId # UNDEFINED THEN args.connectionId
                   ELSE defaultConnectionId
     IN IF Len(companyObject) = 0 \/ Len(contactObject) = 0
        THEN pc' = "done" /\ ret' = MissingObject /\ queries' = queries
        ELSE IF connId = NULL
        THEN pc' = "done" /\ ret' = NoConnection /\ queries' = queries
        ELSE /\ pc' = "awaiting"
             /\ ret' = ret
             /\ queries' = <<Query(connId,
                                   CountSQL(args.filters, companyObject[1],
                                            contactObject[1]))>>
  /\ UNCHANGED <<defaultConnectionId, op, args, history, serviceVars>>

\* getCohortCountsWithConfig after its await (lines 670-684)
GetCohortCountsWithConfigReturn ==
  /\ op = "getCohortCountsWithConfig"
  /\ pc = "awaiting"
  /\ queries[1].status # "pending"
  /\ pc' = "done"
  /\ ret' = CountsResult(queries[1])
  /\ UNCHANGED <<defaultConnectionId, op, args, queries, history, serviceVars>>

\* getCohortPreviewWithConfig up to its await (lines 703-806)
GetCohortPreviewWithConfig ==
  /\ op = "getCohortPreviewWithConfig"
  /\ pc = "idle"
  /\ LET objects == args.audienceConfig.objects
         companyObject == FindObject(objects, CompanyMarker)
         contactObject == FindObject(objects, ContactMarker)
     IN IF args.connectionId = UNDEFINED
        THEN pc' = "done" /\ ret' = NoConnection /\ queries' = queries
        ELSE IF Len(companyObject) = 0 \/ Len(contactObject) = 0
        THEN pc' = "done" /\ ret' = MissingObject /\ queries' = queries
        ELSE /\ pc' = "awaiting"
             /\ ret' = ret
             /\ queries' =
                  <<Query(args.connectionId,
                          CompanyPreviewSQL(args.filters, companyObject[1])),
                    Query(args.connectionId,
                          ContactPreviewSQL(args.filters, companyObject[1],
                                            contactObject[1]))>>
  /\ UNCHANGED <<defaultConnectionId, op, args, history, serviceVars>>

\* getCohortPreviewWithConfig after Promise.all settles (lines 803-808)
GetCohortPreviewWithConfigReturn ==
  /\ op = "getCohortPreviewWithConfig"
  /\ pc = "awaiting"
  /\ \/ /\ PromiseAll(queries) = "rejected"
        /\ \E i \in 1..2 :
             /\ queries[i].status = "rejected"
             /\ ret' = Error(queries[i].error)
     \/ /\ PromiseAll(queries) = "fulfilled"
        /\ ret' = [status |-> "ok", companyPreview |-> queries[1].rows,
                   contactPreview |-> queries[2].rows]
  /\ pc' = "done"
  /\ UNCHANGED <<defaultConnectionId, op, args, queries, history, serviceVars>>

\* the executor answers a query with rows (part_010, lines 522-527)
ExecutorResolve ==
  \E i \in 1..Len(queries) :
    /\ queries[i].status = "pending"
    /\ \E rows \in QueryResults(queries[i].sql) :
         queries' = [queries EXCEPT ![i].status = "resolved", ![i].rows = rows]
    /\ UNCHANGED <<defaultConnectionId, op, args, pc, ret, history, serviceVars>>

\* the executor throws (part_010, lines 489-496 and 528-533)
ExecutorReject ==
  \E i \in 1..Len(queries) :
    /\ queries[i].status = "pending"
    /\ \E error \in ExecutorErrors :
         queries' = [queries EXCEPT ![i].status = "rejected",
                                    ![i].error = error]
    /\ UNCHANGED <<defaultConnectionId, op, args, pc, ret, history, serviceVars>>

Next ==
  \/ SetDefaultConnectionId
  \/ FormatValue
  \/ BuildFilterConditions
  \/ BuildSingleFilterCondition
  \/ GenerateCohortSQL
  \/ ExecuteCohortQuery
  \/ ExecuteCohortQueryReturn
  \/ GetCohortCountsWithConfig
  \/ GetCohortCountsWithConfigReturn
  \/ GetCohortPreviewWithConfig
  \/ GetCohortPreviewWithConfigReturn
  \/ ExecutorResolve
  \/ ExecutorReject

Spec == Init /\ [][Next]_vars

(***************************************************************************)
(* Properties of buildFilterConditions                                     *)
(***************************************************************************)
Built == op = "buildFilterConditions" /\ pc = "done"

\* the condition compiled for the i-th filter of the call
Cond(i) ==
  buildSingleFilterCondition(args.filters[i], args.tableAlias, args.fields)

Conds == [i \in 1..Len(args.filters) |-> Cond(i)]

LogicalOps == [i \in 1..Len(args.filters) |-> args.filters[i].logicalOperator]

Word(lop) == IF lop = "OR" THEN <<" OR ">> ELSE <<" AND ">>

Paren(text) == <<"(">> \o text \o <<")">>

C2_OrRunThenAnd ==
  (Built /\ LogicalOps = <<"OR", "OR", "AND">>) =>
    ret.text = Paren(Cond(1) \o <<" OR ">> \o Cond(2)) \o <<" AND ">> \o Cond(3)

C2_Witness ==
  /\ Built
  /\ LogicalOps = <<"OR", "OR", "AND">>
  /\ Cond(1) # Cond(2) /\ Cond(1) # Cond(3) /\ Cond(2) # Cond(3)
  /\ ret.text[1] = "("

\* C3 as stated: [A(AND), B(OR), C(AND)] compiles to A AND (B) AND C.
C3_Original ==
  (Built /\ LogicalOps = <<"AND", "OR", "AND">>) =>
    ret.text = Cond(1) \o <<" AND ">> \o Paren(Cond(2)) \o <<" AND ">> \o Cond(3)

\* C3 amended: [A(AND), B(OR), C(AND)] compiles to A AND B AND C, each of
\* the three one-condition groups written without parentheses.
C3_SingleGroupsBare ==
  (Built /\ LogicalOps = <<"AND", "OR", "AND">>) =>
    ret.text = Cond(1) \o <<" AND ">> \o Cond(2) \o <<" AND ">> \o Cond(3)

C3_Witness ==
  /\ Built
  /\ LogicalOps = <<"AND", "OR", "AND">>
  /\ Cond(1) # Cond(2) /\ Cond(2) # Cond(3)
  /\ \A k \in 1..Len(ret.text) : ret.text[k] \notin {"(", ")"}

\* the connectors of a compiled expression, in order
RECURSIVE Connectors(_)
Connectors(text) ==
  IF Len(text) = 0 THEN <<>>
  ELSE (IF Head(text) \in {" AND ", " OR "} THEN <<Head(text)>> ELSE <<>>)
       \o Connectors(Tail(text))

\* C4 as stated: the connector between the conditions of filters i and i+1
\* is the logicalOperator of filter i (AND when absent).
C4_Original ==
  Built =>
    /\ Len(Connectors(ret.text)) = Len(args.filters) - 1
         \/ Len(args.filters) = 0
    /\ \A i \in 1..(Len(args.filters) - 1) :
         <<Connectors(ret.text)[i]>> = Word(LogicalOps[i])

\* C4 amended: the connector between the conditions of filters i and i+1 is
\* the logicalOperator of filter i (AND when absent) when filter i+1 carries
\* the same logicalOperator as filter i (absent equal to absent only), and
\* AND when the two differ.
C4_ConnectorOfRun ==
  Built =>
    /\ Len(Connectors(ret.text)) = Len(args.filters) - 1
         \/ Len(args.filters) = 0
    /\ \A i \in 1..(Len(args.filters) - 1) :
         <<Connectors(ret.text)[i]>> =
           IF LogicalOps[i + 1] = LogicalOps[i]
           THEN Word(LogicalOps[i]) ELSE <<" AND ">>

C4_Witness ==
  /\ Built
  /\ LogicalOps = <<"OR", "OR", "AND">>
  /\ Connectors(ret.text) = <<" OR ", " AND ">>

\* the list with every absent logicalOperator written as AND
ExplicitAnd(filters) ==
  [i \in 1..Len(filters) |->
     [filters[i] EXCEPT !.logicalOperator = IF @ = UNDEFINED THEN "AND" ELSE @]]

\* C5: writing AND for every absent logicalOperator leaves the compiled
\* expression unchanged.
C5_AbsentIsAnd ==
  Built =>
    ret.text = buildFilterConditions(ExplicitAnd(args.filters),
                                     args.tableAlias, args.fields)

(***************************************************************************)
(* Properties of formatValue                                               *)
(***************************************************************************)
Formatted == op = "formatValue" /\ pc = "done"

\* reading a quoted literal back: every pair of quotes is one quote; a
\* quote that is not followed by a quote is unpaired
RECURSIVE Paired(_)
Paired(inner) ==
  IF Len(inner) = 0 THEN TRUE
  ELSE IF Head(inner) # "'" THEN Paired(Tail(inner))
  ELSE Len(inner) >= 2 /\ inner[2] = "'" /\ Paired(Tail(Tail(inner)))

RECURSIVE Undouble(_)
Undouble(inner) ==
  IF Len(inner) = 0 THEN <<>>
  ELSE IF Head(inner) = "'" /\ Len(inner) >= 2 /\ inner[2] = "'"
  THEN <<"'">> \o Undouble(Tail(Tail(inner)))
  ELSE <<Head(inner)>> \o Undouble(Tail(inner))

Inner(literal) == SubSeq(literal, 2, Len(literal) - 1)

QuoteCount(text) == Cardinality({k \in 1..Len(text) : text[k] = "'"})

\* C6: a string is formatted as itself between single quotes with every
\* single quote doubled; no quote between the delimiters is unpaired, and
\* reading the literal back gives the string.
C6_EscapingRoundTrip ==
  /\ formatValue(StrVal(OBrien))
       = <<"'", "O", "'", "'", "B", "r", "i", "e", "n", "'">>
  /\ (Formatted /\ args.value.type = "string") =>
       /\ Len(ret.text) >= 2
       /\ ret.text[1] = "'" /\ ret.text[Len(ret.text)] = "'"
       /\ Len(ret.text) = Len(args.value.s) + QuoteCount(args.value.s) + 2
       /\ Paired(Inner(ret.text))
       /\ Undouble(Inner(ret.text)) = args.value.s

C6_Witness ==
  /\ Formatted
  /\ args.value.type = "string"
  /\ QuoteCount(args.value.s) = 2
  /\ QuoteCount(ret.text) = 6

(***************************************************************************)
(* Properties of generateCohortSQL                                         *)
(***************************************************************************)
Generated == op = "generateCohortSQL" /\ pc = "done"

C8_PreviewCap ==
  (op = "getCohortPreviewWithConfig" /\ ret.status = "ok") =>
    /\ Len(ret.companyPreview) <= 25
    /\ Len(ret.contactPreview) <= 25

C8_Witness ==
  /\ op = "getCohortPreviewWithConfig"
  /\ ret.status = "ok"
  /\ args.requestedLimit > 25
  /\ Len(ret.companyPreview) = 25
  /\ Len(ret.contactPreview) = 25

(***************************************************************************)
(* Properties of the joins of the listing SQL                              *)
(***************************************************************************)
AtomCount(text, atom) == Cardinality({k \in 1..Len(text) : text[k] = atom})

\* the relationships whose joinCondition contains the alias, by position
Matching(alias) ==
  {k \in 1..Len(args.audienceConfig.relationships) :
     Includes(args.audienceConfig.relationships[k].joinCondition, alias)}

TableRef(obj) ==
  <<BT, "{project}", ".", obj.object.bigqueryTable, BT, " ">> \o obj.alias

\* the text that can follow a JOIN clause in the listing SQL
AfterJoin == {<<" ">>, <<" WHERE ">>, <<" LIMIT ">>}

EndsWith(text, part) ==
  Len(part) <= Len(text)
  /\ SubSeq(text, Len(text) - Len(part) + 1, Len(text)) = part

\* C9: the first object is the FROM target; every later object has one JOIN
\* clause, built from the first relationship whose joinCondition contains
\* its alias, when there is such a relationship, and none otherwise.
C9_FirstMatchingJoin ==
  Generated =>
    LET objects == args.audienceConfig.objects
        relationships == args.audienceConfig.relationships
        joined == {i \in 2..Len(objects) : Matching(objects[i].alias) # {}}
    IN /\ AtomCount(ret.sql, " FROM ") = 1
       /\ Len(objects) >= 1 =>
            Includes(ret.sql, <<" FROM ">> \o TableRef(objects[1]))
       /\ AtomCount(ret.sql, "JOIN ") = Cardinality(joined)
       /\ \A i \in joined :
            LET first == CHOOSE k \in Matching(objects[i].alias) :
                           \A h \in Matching(objects[i].alias) : k <= h
                clause == <<"JOIN ">> \o TableRef(objects[i]) \o <<" ON ">>
                          \o relationships[first].joinCondition
            IN \/ EndsWith(ret.sql, clause)
               \/ \E after \in AfterJoin : Includes(ret.sql, clause \o after)
       /\ (Len(objects) = 2 /\ Len(relationships) = 1
           /\ Includes(relationships[1].joinCondition, objects[1].alias)
           /\ Includes(relationships[1].joinCondition, objects[2].alias))
            => AtomCount(ret.sql, "JOIN ") = 1
       /\ (\A i \in 2..Len(objects) : Matching(objects[i].alias) = {})
            => AtomCount(ret.sql, "JOIN ") = 0

C9_Witness ==
  /\ Generated
  /\ Len(args.audienceConfig.objects) = 2
  /\ Cardinality(Matching(args.audienceConfig.objects[2].alias)) = 2
  /\ args.audienceConfig.relationships[1] # args.audienceConfig.relationships[2]
  /\ AtomCount(ret.sql, "JOIN ") = 1

(***************************************************************************)
(* Properties of the count query                                           *)
(***************************************************************************)
CountQueryBuilt ==
  op = "getCohortCountsWithConfig" /\ Len(queries) = 1

Scenario ==
  /\ args.filters.companyFilters = <<CountryIsUSA>>
  /\ args.filters.contactFilters = <<TitleHasDirector>>
  /\ Len(args.audienceConfig.objects) = 2

\* C10: for companyFilters [country equals 'USA'] and contactFilters
\* [job_title contains 'Director'] against a two-object audience, the count
\* query has a qualified_companies CTE filtered by
\* <companyAlias>.country = 'USA' and a contact subquery, inner-joined to
\* the CTE on the join key, filtered by
\* <contactAlias>.job_title LIKE '%Director%'.
C10_CountScenario ==
  (CountQueryBuilt /\ Scenario) =>
    \E c \in 1..2, p \in 1..2 :
      LET company == args.audienceConfig.objects[c]
          contact == args.audienceConfig.objects[p]
      IN /\ \E k \in 1..Len(company.object.fields) :
              company.object.fields[k].name = "ic_acc_name"
         /\ \E k \in 1..Len(contact.object.fields) :
              contact.object.fields[k].name = "ic_fname"
         /\ Includes(queries[1].sql,
              <<"qualified_companies AS ( SELECT DISTINCT ">> \o company.alias
              \o <<".SalesForceID FROM ", BT, company.object.bigqueryTable,
                   BT, " ">> \o company.alias
              \o <<" ", "WHERE ">> \o company.alias
              \o <<".", "country", " = ", "'", "U", "S", "A", "'", " )">>)
         /\ Includes(queries[1].sql,
              <<BT, contact.object.bigqueryTable, BT, " ">> \o contact.alias
              \o <<" ", "INNER JOIN qualified_companies qc ON ">>
              \o contact.alias
              \o <<".SalesForceID = qc.SalesForceID", " ", "WHERE ">>
              \o contact.alias
              \o <<".", "job_title", " LIKE ", "'", "%", "D", "i", "r", "e",
                   "c", "t", "o", "r", "%", "'", " ) AS people_count">>)

C10_Witness ==
  /\ CountQueryBuilt
  /\ Scenario
  /\ args.audienceConfig.objects[1].alias = <<"p">>
  /\ args.audienceConfig.objects[2].alias = <<"c">>
  /\ queries[1].status = "pending"

(***************************************************************************)
(* Properties of the three operations that run a query                     *)
(***************************************************************************)
AllResolved ==
  Len(queries) > 0 /\ \A i \in 1..Len(queries) : queries[i].status = "resolved"

NoRows ==
  \E i \in 1..Len(queries) :
    queries[i].status = "resolved" /\ Len(queries[i].rows) = 0

\* C11 as stated: a call whose executor returned no rows ends in an error
C11_Original == (pc = "done" /\ NoRows) => ret.status = "error"

\* C11: an empty result set of the executor is returned as a success:
\* listing returns the empty list of rows, count returns zero for both
\* counts, preview returns each side as the executor gave it
C11_EmptyIsSuccess ==
  (pc = "done" /\ AllResolved /\ NoRows) =>
    CASE op = "executeCohortQuery" -> ret = [status |-> "ok", rows |-> <<>>]
      [] op = "getCohortCountsWithConfig" ->
           ret = [status |-> "ok", companyCount |-> 0, peopleCount |-> 0]
      [] op = "getCohortPreviewWithConfig" ->
           /\ ret.status = "ok"
           /\ ret.companyPreview = queries[1].rows
           /\ ret.contactPreview = queries[2].rows
      [] OTHER -> FALSE

C11_Witness ==
  /\ op = "getCohortCountsWithConfig"
  /\ pc = "done"
  /\ AllResolved
  /\ NoRows
  /\ ret.status = "ok"
  /\ ret.companyCount = 0

Preview == op = "getCohortPreviewWithConfig"

SomeRejected == \E i \in 1..Len(queries) : queries[i].status = "rejected"

\* both queries are handed to the executor in the one step that starts them
SubmittedTogether ==
  (Preview /\ Len(queries) = 0 /\ Len(queries') > 0) =>
    (Len(queries') = 2 /\ \A i \in 1..2 : queries'[i].status = "pending")

\* a result is returned only when both queries have succeeded
JoinAll ==
  (Preview /\ ret.status = "ok") =>
    /\ AllResolved
    /\ ret.companyPreview = queries[1].rows
    /\ ret.contactPreview = queries[2].rows

\* once a query has failed the call can fail at once, whatever the state of
\* the other query, and the error it ends in carries no rows
FailFast ==
  /\ (Preview /\ pc = "awaiting" /\ SomeRejected) =>
       ENABLED GetCohortPreviewWithConfigReturn
  /\ (Preview /\ pc = "done" /\ SomeRejected) =>
       (ret.status = "error" /\ DOMAIN ret = {"status", "message"})

\* C12: the preview submits both queries before either has completed,
\* returns a result only after both succeeded, and fails as soon as either
\* fails, without waiting for the other and without the other side's rows
C12_FanOutJoinAllFailFast ==
  [](JoinAll /\ FailFast) /\ [][SubmittedTogether]_vars

C12_Witness ==
  /\ Preview
  /\ pc = "done"
  /\ ret.status = "error"
  /\ Len(queries) = 2
  /\ queries[1].status = "pending"
  /\ queries[2].status = "rejected"

\* the message is the executor's message behind some words of context
Wraps(message, error) ==
  /\ Len(message) > Len(error)
  /\ SubSeq(message, Len(message) - Len(error) + 1, Len(message)) = error

\* C13: when the executor throws, the call ends in an error whose message
\* wraps the executor's message with context of the failing mode; the
\* executor's error is never passed on as it is and never swallowed
C13_ExecutorErrorWrapped ==
  (pc = "done" /\ SomeRejected) =>
    /\ ret.status = "error"
    /\ \E i \in 1..Len(queries) :
         queries[i].status = "rejected" /\ Wraps(ret.message, queries[i].error)

\* the number of queries a call of the operation hands to the executor
QueriesOf(operation) ==
  CASE operation = "executeCohortQuery" -> 1
    [] operation = "getCohortCountsWithConfig" -> 1
    [] operation = "getCohortPreviewWithConfig" -> 2
    [] OTHER -> 0

\* the queries handed to the executor are never handed to it again
NoRetry ==
  Len(queries) > 0 =>
    /\ Len(queries') = Len(queries)
    /\ \A i \in 1..Len(queries) :
         queries'[i].sql = queries[i].sql /\ queries'[i].connId = queries[i].connId

SubmittedOnce ==
  /\ Len(queries) \in {0, QueriesOf(op)}
  /\ Len(queries) = 2 => queries[1].sql # queries[2].sql

FailureIsError ==
  /\ (pc = "done" /\ SomeRejected) => ret.status = "error"
  /\ ret.status = "ok" => ~SomeRejected

\* C14: each query of a call is submitted to the executor at most once, one
\* for listing and count and two for preview, and a call whose submission
\* failed ends in an error, never in a result
C14_OnceAndFailureIsError ==
  [](SubmittedOnce /\ FailureIsError) /\ [][NoRetry]_vars

C14_Witness ==
  /\ op = "executeCohortQuery"
  /\ pc = "done"
  /\ Len(queries) = 1
  /\ queries[1].status = "rejected"
  /\ ret = Error(<<"Failed to execute cohort query: ">> \o queries[1].error)

(***************************************************************************)
(* Two requests on one CohortService (src/src/services/CohortService.ts).  *)
(* The controller module holds a single instance, so the adapter and its   *)
(* defaultConnectionId are shared by the requests in flight.  Each request *)
(* calls setBigQueryConnectionId with its own connection id and then       *)
(* getFilterCounts, with or without an explicit connection id.             *)
(***************************************************************************)
Requests == {"r1", "r2"}

\* what getAudienceConfiguration returns for the audience of the requests
StoredConfig ==
  [objects |-> <<Company(<<"c">>), Contact(<<"p">>)>>,
   relationships |-> <<CompanyContact>>]

RequestFilterSets ==
  {fs \in CohortFilterSets : fs.contactFilters = <<>> /\
     \A i \in 1..Len(fs.companyFilters) : fs.companyFilters[i] = CountryIsUSA}

InitShared ==
  /\ defaultConnectionId = NULL
  /\ op = "getFilterCounts"
  /\ args = <<>>
  /\ pc = "idle"
  /\ ret = NoRet
  /\ history = <<>>
  /\ queries = <<>>
  /\ cohort = NULL
  /\ now = 0
  /\ job = <<>>
  /\ call = <<>>
  /\ countedFor = <<>>
  /\ http = <<>>
  /\ \E connectionId \in [Requests -> ConnectionIds],
        explicit \in [Requests -> BOOLEAN],
        filters \in [Requests -> RequestFilterSets] :
       requests = [r \in Requests |->
                     [connectionId |-> connectionId[r],
                      explicit |-> explicit[r], filters |-> filters[r],
                      pc |-> "start", arg |-> UNDEFINED, query |-> 0,
                      ret |-> NoRet]]

\* CohortService.setBigQueryConnectionId (lines 15-17)
SetBigQueryConnectionId(r) ==
  /\ requests[r].pc = "start"
  /\ defaultConnectionId' = requests[r].connectionId
  /\ requests' = [requests EXCEPT ![r].pc = "set"]
  /\ UNCHANGED <<queries, requestVars, cohortVars, http>>

\* the request always hands its own connection id to getFilterCounts
GetFilterCountsPinned(r) ==
  /\ requests[r].pc = "set"
  /\ requests' = [requests EXCEPT ![r].pc = "awaitingConfig",
                                  ![r].arg = requests[r].connectionId]
  /\ UNCHANGED <<defaultConnectionId, queries, requestVars, cohortVars, http>>

\* getFilterCounts up to its await of the audience configuration
\* (lines 174-180)
GetFilterCounts(r) ==
  /\ requests[r].pc = "set"
  /\ requests' = [requests EXCEPT
                    ![r].pc = "awaitingConfig",
                    ![r].arg = IF requests[r].explicit
                               THEN requests[r].connectionId ELSE UNDEFINED]
  /\ UNCHANGED <<defaultConnectionId, queries, requestVars, cohortVars, http>>

\* getFilterCounts resumes with the configuration and calls
\* getCohortCountsWithConfig, which runs up to its await of the executor
\* (CohortService lines 183-187, adapter lines 585-670)
GetFilterCountsResume(r) ==
  /\ requests[r].pc = "awaitingConfig"
  /\ LET objects == StoredConfig.objects
         companyObject == FindObject(objects, CompanyMarker)
         contactObject == FindObject(objects, ContactMarker)
         connId == IF requests[r].arg # UNDEFINED THEN requests[r].arg
                   ELSE defaultConnectionId
     IN IF Len(companyObject) = 0 \/ Len(contactObject) = 0
        THEN /\ requests' = [requests EXCEPT ![r].pc = "done",
                                             ![r].ret = MissingObject]
             /\ queries' = queries
        ELSE IF connId = NULL
        THEN /\ requests' = [requests EXCEPT ![r].pc = "done",
                                             ![r].ret = NoConnection]
             /\ queries' = queries
        ELSE /\ requests' = [requests EXCEPT ![r].pc = "awaitingQuery",
                                             ![r].query = Len(queries) + 1]
             /\ queries' = Append(queries,
                                  Query(connId,
                                        CountSQL(requests[r].filters,
                                                 companyObject[1],
                                                 contactObject[1])))
  /\ UNCHANGED <<defaultConnectionId, requestVars, cohortVars, http>>

\* getCohortCountsWithConfig after its await and the return of
\* getFilterCounts (adapter lines 670-684, CohortService line 183)
GetFilterCountsReturn(r) ==
  /\ requests[r].pc = "awaitingQuery"
  /\ queries[requests[r].query].status # "pending"
  /\ requests' = [requests EXCEPT
                    ![r].pc = "done",
                    ![r].ret = CountsResult(queries[requests[r].query])]
  /\ UNCHANGED <<defaultConnectionId, queries, requestVars, cohortVars, http>>

NextShared ==
  \/ \E r \in Requests : SetBigQueryConnectionId(r)
  \/ \E r \in Requests : GetFilterCounts(r)
  \/ \E r \in Requests : GetFilterCountsResume(r)
  \/ \E r \in Requests : GetFilterCountsReturn(r)
  \/ ExecutorResolve
  \/ ExecutorReject

SpecShared == InitShared /\ [][NextShared]_vars

(***************************************************************************)
(* Life of a cohort (src/src/services/CohortService.ts,                    *)
(* src/src/services/AudienceService.ts, src/src/storage/audienceStorage.ts)*)
(* AudienceService is written against the first class of the adapter file  *)
(* (lines 1-357).  cohort is the row of the cohort in the table, <<>>      *)
(* before it is inserted; a column that can be null is <<>> or <<value>>.  *)
(* now is the clock in hours.  job is the background call of               *)
(* processCohortCounts, call the call of getCohortCounts of a client.      *)
(* A write to the table takes effect in a step of its own, after the step  *)
(* that started it.                                                        *)
(* countedFor is the count query whose result the counts of the row are,   *)
(* <<>> while the row holds the defaults of the schema.                    *)
(***************************************************************************)
CacheHours == 24

\* the clock advances in steps of half a day
ClockStep == 12

\* the count query of the first adapter (lines 139-166)
CohortCountSQL(filters) ==
  LET companyConditions ==
        IF Len(filters.companyFilters) > 0
        THEN buildFilterConditions(filters.companyFilters, <<"a">>, <<>>)
        ELSE <<>>
      contactConditions ==
        IF Len(filters.contactFilters) > 0
        THEN buildFilterConditions(filters.contactFilters, <<"c">>, <<>>)
        ELSE <<>>
      whereConditions ==
        (IF Len(companyConditions) > 0
         THEN <<<<"(">> \o companyConditions \o <<")">>>> ELSE <<>>)
        \o (IF Len(contactConditions) > 0
            THEN <<<<"(">> \o contactConditions \o <<")">>>> ELSE <<>>)
  IN <<"SELECT COUNT(DISTINCT a.id) as company_count,",
       " COUNT(DISTINCT c.id) as people_count", " FROM ", BT,
       "{project}.{dataset}.unified_contacts", BT, " c JOIN ", BT,
       "{project}.{dataset}.unified_accounts", BT,
       " a ON c.account_id = a.id">>
     \o (IF Len(whereConditions) > 0
         THEN <<" WHERE ">> \o Join(whereConditions, <<" AND ">>)
         ELSE <<>>)

\* the row that createCohort inserts: the counts take the default 0 of the
\* schema (schema lines 61-66)
NewCohort(filters) ==
  [filters |-> filters, companyCount |-> <<0>>, peopleCount |-> <<0>>,
   status |-> "processing", lastProcessedAt |-> <<>>, errorMessage |-> <<>>]

\* audienceStorage.updateCohortCounts (lines 239-256); at is the new Date()
\* of the call
updateCohortCounts(row, companyCount, peopleCount, at) ==
  [row EXCEPT !.companyCount = <<companyCount>>,
              !.peopleCount = <<peopleCount>>,
              !.lastProcessedAt = <<at>>, !.status = "active"]

\* audienceStorage.updateCohortStatus (lines 258-273)
updateCohortStatus(row, status, errorMessage) ==
  [row EXCEPT !.status = status, !.errorMessage = <<errorMessage>>]

\* audienceStorage.updateCohort (lines 227-237)
updateCohort(row, updates) ==
  [k \in DOMAIN row |-> IF k \in DOMAIN updates THEN updates[k] ELSE row[k]]

\* the bodies of PUT /cohorts/:id of the model: a count is set to null
CohortUpdates == {[companyCount |-> <<>>]}

\* the counts are served from the table up to and including the 24th hour
CacheHitInclusive(row, time) ==
  /\ Len(row.companyCount) > 0
  /\ Len(row.peopleCount) > 0
  /\ Len(row.lastProcessedAt) > 0
  /\ time - row.lastProcessedAt[1] <= CacheHours

\* AudienceService.getCohortCounts, lines 160-163
CacheHit(row, time) ==
  /\ Len(row.companyCount) > 0
  /\ Len(row.peopleCount) > 0
  /\ Len(row.lastProcessedAt) > 0
  /\ time - row.lastProcessedAt[1] < CacheHours

NoJob == [pc |-> "none", query |-> 0, write |-> <<>>]

NoCall == [pc |-> "idle", seen |-> <<>>, at |-> 0, hit |-> FALSE,
           query |-> 0, write |-> <<>>, ret |-> NoRet]

CohortNotFound == Error(<<"Cohort not found">>)

\* the settled query once the call that awaited it has taken its outcome
Taken(query) ==
  [query EXCEPT !.status = "taken", !.rows = <<>>, !.error = <<>>]

\* the service starts with or without a connection id set on its adapter
\* (AudienceService lines 23-25)
InitCohort ==
  /\ defaultConnectionId \in {NULL, "conn1"}
  /\ op = "createCohort"
  /\ args = [filters |-> [companyFilters |-> <<CountryIsUSA>>,
                           contactFilters |-> <<TitleHasDirector>>]]
  /\ pc = "idle"
  /\ ret = NoRet
  /\ history = <<>>
  /\ queries = <<>>
  /\ requests = <<>>
  /\ cohort = <<>>
  /\ now = 0
  /\ job = NoJob
  /\ call = NoCall
  /\ countedFor = <<>>
  /\ http = <<>>

\* CohortService.createCohort (lines 20-59): the row is inserted and
\* returned; the background computation of the counts is commented out
CohortServiceCreateCohort ==
  /\ op = "createCohort"
  /\ pc = "idle"
  /\ cohort' = <<NewCohort(args.filters)>>
  /\ pc' = "done"
  /\ ret' = [status |-> "ok", cohort |-> cohort'[1]]
  /\ UNCHANGED <<defaultConnectionId, op, args, queries, history, requests, http,
                 now, job, call,
                 countedFor>>

\* AudienceService.createCohort (lines 81-116): the row is inserted,
\* processCohortCounts is started and runs up to its first await (lines
\* 242-244, adapter lines 138-177), the row is returned
AudienceServiceCreateCohort ==
  /\ op = "createCohort"
  /\ pc = "idle"
  /\ cohort' = <<NewCohort(args.filters)>>
  /\ pc' = "done"
  /\ ret' = [status |-> "ok", cohort |-> cohort'[1]]
  /\ IF defaultConnectionId = NULL
     THEN /\ job' = [pc |-> "storingError", query |-> 0,
                     write |-> <<NoConnection.message>>]
          /\ queries' = queries
     ELSE /\ job' = [pc |-> "awaitingQuery", query |-> Len(queries) + 1,
                     write |-> <<>>]
          /\ queries' = Append(queries,
                               Query(defaultConnectionId,
                                     CohortCountSQL(args.filters)))
  /\ UNCHANGED <<defaultConnectionId, op, args, history, requests, http, now, call,
                 countedFor>>

\* processCohortCounts after the count query has settled (lines 244-252,
\* adapter lines 175-186): it starts the write of the counts or of the error
ProcessCohortCountsResume ==
  /\ job.pc = "awaitingQuery"
  /\ queries[job.query].status # "pending"
  /\ LET counts == CountsResult(queries[job.query])
     IN job' = IF counts.status = "ok"
               THEN [job EXCEPT !.pc = "storingCounts",
                                !.write = <<counts.companyCount,
                                            counts.peopleCount, now>>]
               ELSE [job EXCEPT !.pc = "storingError",
                                !.write = <<counts.message>>]
  /\ queries' = [queries EXCEPT ![job.query] = Taken(@)]
  /\ UNCHANGED <<defaultConnectionId, requestVars, requests, http, cohort, now, call,
                 countedFor>>

\* the write of the counts takes effect (line 245)
ProcessCohortCountsStored ==
  /\ job.pc = "storingCounts"
  /\ cohort' = <<updateCohortCounts(cohort[1], job.write[1], job.write[2],
                                    job.write[3])>>
  /\ job' = [job EXCEPT !.pc = "done"]
  /\ countedFor' = <<queries[job.query].sql>>
  /\ UNCHANGED <<defaultConnectionId, queries, requestVars, requests, http, now,
                 call>>

\* the write of the error takes effect and the error is thrown again
\* (lines 248-253); the catch of createCohort starts the same write once
\* more (lines 109-112)
ProcessCohortCountsFailed ==
  /\ job.pc = "storingError"
  /\ cohort' = <<updateCohortStatus(cohort[1], "error", job.write[1])>>
  /\ job' = [job EXCEPT !.pc = "storingErrorAgain"]
  /\ UNCHANGED <<defaultConnectionId, queries, requestVars, requests, http, now,
                 call,
                 countedFor>>

\* the write started by the catch of createCohort takes effect (line 111)
CreateCohortCatch ==
  /\ job.pc = "storingErrorAgain"
  /\ cohort' = <<updateCohortStatus(cohort[1], "error", job.write[1])>>
  /\ job' = [job EXCEPT !.pc = "done"]
  /\ UNCHANGED <<defaultConnectionId, queries, requestVars, requests, http, now,
                 call,
                 countedFor>>

\* the queries of the executor without the taken ones at their end
Awaited ==
  IF Len(queries) > 0 /\ queries[Len(queries)].status = "taken"
     /\ job.query # Len(queries)
  THEN SubSeq(queries, 1, Len(queries) - 1)
  ELSE queries

\* AudienceService.getCohortCounts up to its await of findCohortById
\* (lines 153-154)
GetCohortCounts ==
  /\ call.pc \in {"idle", "done"}
  /\ call' = [NoCall EXCEPT !.pc = "finding"]
  /\ UNCHANGED <<defaultConnectionId, queries, requestVars, requests, http, cohort,
                 now, job,
                 countedFor>>

\* getCohortCounts with the row it has read (lines 155-174, adapter lines
\* 138-177): not found, served from the table, or the count query started
GetCohortCountsFound ==
  /\ call.pc = "finding"
  /\ IF Len(cohort) = 0
     THEN /\ call' = [call EXCEPT !.pc = "done", !.ret = CohortNotFound]
          /\ queries' = queries
     ELSE IF CacheHit(cohort[1], now)
     THEN /\ call' = [call EXCEPT
                        !.pc = "done", !.seen = cohort, !.at = now,
                        !.hit = TRUE,
                        !.ret = [status |-> "ok",
                                 companyCount |-> cohort[1].companyCount[1],
                                 peopleCount |-> cohort[1].peopleCount[1]]]
          /\ queries' = queries
     ELSE IF defaultConnectionId = NULL
     THEN /\ call' = [call EXCEPT !.pc = "done", !.seen = cohort,
                                  !.at = now, !.ret = NoConnection]
          /\ queries' = queries
     ELSE /\ call' = [call EXCEPT !.pc = "awaitingQuery", !.seen = cohort,
                                  !.at = now, !.query = Len(Awaited) + 1]
          /\ queries' = Append(Awaited,
                               Query(defaultConnectionId,
                                     CohortCountSQL(cohort[1].filters)))
  /\ UNCHANGED <<defaultConnectionId, requestVars, requests, http, cohort, now, job,
                 countedFor>>

\* getCohortCounts after the count query has settled (lines 171-174): the
\* error is thrown on, or the write of the counts is started
GetCohortCountsResume ==
  /\ call.pc = "awaitingQuery"
  /\ queries[call.query].status # "pending"
  /\ LET counts == CountsResult(queries[call.query])
     IN call' = IF counts.status = "ok"
                THEN [call EXCEPT !.pc = "storing",
                                  !.write = <<counts.companyCount,
                                              counts.peopleCount, now>>]
                ELSE [call EXCEPT !.pc = "done", !.ret = counts]
  /\ queries' = [queries EXCEPT ![call.query] = Taken(@)]
  /\ UNCHANGED <<defaultConnectionId, requestVars, requests, http, cohort, now, job,
                 countedFor>>

\* the write of the counts takes effect and they are returned
\* (lines 174-177)
GetCohortCountsStored ==
  /\ call.pc = "storing"
  /\ cohort' = <<updateCohortCounts(cohort[1], call.write[1], call.write[2],
                                    call.write[3])>>
  /\ call' = [call EXCEPT !.pc = "done",
                          !.ret = [status |-> "ok",
                                   companyCount |-> call.write[1],
                                   peopleCount |-> call.write[2]]]
  /\ countedFor' = <<queries[call.query].sql>>
  /\ UNCHANGED <<defaultConnectionId, queries, requestVars, requests, http, now,
                 job>>

\* PUT /cohorts/:id (controller lines 283-287, service lines 134-136)
UpdateCohort ==
  /\ Len(cohort) > 0
  /\ \E updates \in CohortUpdates :
       /\ cohort' = <<updateCohort(cohort[1], updates)>>
       /\ cohort' # cohort
  /\ UNCHANGED <<defaultConnectionId, queries, requestVars, requests, http, now,
                 job, call,
                 countedFor>>

\* time passes
Tick ==
  /\ now + ClockStep <= MaxClock
  /\ now' = now + ClockStep
  /\ UNCHANGED <<defaultConnectionId, queries, requestVars, requests, http, cohort,
                 job, call,
                 countedFor>>

NextCohort ==
  \/ CohortServiceCreateCohort
  \/ AudienceServiceCreateCohort
  \/ ProcessCohortCountsResume
  \/ ProcessCohortCountsStored
  \/ ProcessCohortCountsFailed
  \/ CreateCohortCatch
  \/ GetCohortCounts
  \/ GetCohortCountsFound
  \/ GetCohortCountsResume
  \/ GetCohortCountsStored
  \/ UpdateCohort
  \/ Tick
  \/ ExecutorResolve
  \/ ExecutorReject

SpecCohort == InitCohort /\ [][NextCohort]_vars

(***************************************************************************)
(* The endpoints of the controller that take companyFilters and            *)
(* contactFilters (src/src/controllers/audiences/audienceController.ts).   *)
(* http is the request in the hands of its handler: the endpoint, the body,*)
(* the progress of the handler and what it answered or threw.  The call of *)
(* the adapter that a handler ends in is run by the actions of the adapter.*)
(***************************************************************************)
Endpoints ==
  {"createCohort", "getFilterCounts", "getFilterPreveiwData",
   "previewFilterData"}

\* a value of the JSON body; a is the list of an array
Json(type, a) == [type |-> type, a |-> a]

Absent == Json("undefined", <<>>)

BodyValues ==
  {Absent, Json("null", <<>>), Json("number", <<>>), Json("string", <<>>),
   Json("object", <<>>), Json("array", <<>>), Json("array", <<CountryIsUSA>>)}

\* the number of the model is 0 and the string is not empty
Truthy(v) == v.type \in {"string", "object", "array"}

IsArray(v) == v.type = "array"

\* the destructuring default of the filter endpoints: [] for undefined
OrEmptyArray(v) == IF v = Absent THEN Json("array", <<>>) ELSE v

\* the value as it is handed on: the list of an array, the value otherwise
Handed(v) == IF IsArray(v) THEN v.a ELSE v

ApiError(statusCode, message) ==
  [status |-> "error", statusCode |-> statusCode, message |-> message]

Response(statusCode, data) ==
  [status |-> "ok", statusCode |-> statusCode, data |-> data]

\* limit defaults to 100 (line 562)
DefaultLimit == 100

\* parseInt(limit) lands in the parameter connectionId of previewFilterData
\* (controller lines 581-585, service lines 210-215); the number is written
\* as the text of its digits
LimitAsConnectionId == "100"

InitController ==
  /\ defaultConnectionId \in {NULL, "conn1"}
  /\ op = "none"
  /\ args = <<>>
  /\ pc = "idle"
  /\ ret = NoRet
  /\ history = <<>>
  /\ queries = <<>>
  /\ requests = <<>>
  /\ cohort = <<>>
  /\ now = 0
  /\ job = <<>>
  /\ call = <<>>
  /\ countedFor = <<>>
  /\ \E endpoint \in Endpoints, audienceId \in {UNDEFINED, "aud1"},
        companyFilters \in BodyValues, contactFilters \in BodyValues :
       http = [endpoint |-> endpoint,
               body |-> [audienceId |-> audienceId,
                         companyFilters |-> companyFilters,
                         contactFilters |-> contactFilters],
               pc |-> "received", response |-> NoRet]

\* createCohort (lines 150-198) with CohortService.createCohort (lines
\* 20-59); name and tenant are there, filters and peopleFilters are not
CreateCohortHandler ==
  /\ http.endpoint = "createCohort"
  /\ http.pc = "received"
  /\ IF http.body.audienceId = UNDEFINED
     THEN /\ http' = [http EXCEPT
                        !.pc = "done",
                        !.response =
                          ApiError(400, <<"Name and audienceId are required">>)]
          /\ cohort' = cohort
     ELSE LET companyFilters ==
                IF Truthy(http.body.companyFilters)
                THEN Handed(http.body.companyFilters) ELSE <<>>
              contactFilters ==
                IF Truthy(http.body.contactFilters)
                THEN Handed(http.body.contactFilters) ELSE <<>>
          IN /\ cohort' = <<NewCohort([companyFilters |-> companyFilters,
                                       contactFilters |-> contactFilters])>>
             /\ http' = [http EXCEPT !.pc = "done",
                                     !.response = Response(201, cohort'[1])]
  /\ UNCHANGED <<defaultConnectionId, queries, requestVars, requests, now, job,
                 call,
                 countedFor>>

\* getFilterCounts, getFilterPreveiwData and previewFilterData up to the
\* await of the audience configuration in the service (lines 492-513,
\* 521-543, 556-581; service lines 180, 201, 217)
FilterHandler ==
  /\ http.endpoint \in Endpoints \ {"createCohort"}
  /\ http.pc = "received"
  /\ LET companyFilters == OrEmptyArray(http.body.companyFilters)
         contactFilters == OrEmptyArray(http.body.contactFilters)
     IN http' =
          IF http.body.audienceId = UNDEFINED
          THEN [http EXCEPT
                  !.pc = "done",
                  !.response = ApiError(400, <<"audienceId is required">>)]
          ELSE IF ~IsArray(companyFilters) \/ ~IsArray(contactFilters)
          THEN [http EXCEPT
                  !.pc = "done",
                  !.response =
                    ApiError(400,
                             <<"companyFilters and contactFilters must be arrays">>)]
          ELSE [http EXCEPT !.pc = "awaitingConfig"]
  /\ UNCHANGED <<defaultConnectionId, queries, requestVars, requests,
                 cohortVars>>

\* the service resumes with the configuration and calls the adapter
\* (service lines 183-187, 204-208, 219-224)
ServiceResume ==
  /\ http.pc = "awaitingConfig"
  /\ http' = [http EXCEPT !.pc = "awaitingAdapter"]
  /\ LET filters == [companyFilters |-> http.body.companyFilters.a,
                     contactFilters |-> http.body.contactFilters.a]
     IN CASE http.endpoint = "getFilterCounts" ->
               /\ op' = "getCohortCountsWithConfig"
               /\ args' = [filters |-> filters, audienceConfig |-> StoredConfig,
                           connectionId |-> UNDEFINED]
          [] http.endpoint = "getFilterPreveiwData" ->
               /\ op' = "getCohortPreviewWithConfig"
               /\ args' = [filters |-> filters, audienceConfig |-> StoredConfig,
                           connectionId |-> UNDEFINED,
                           requestedLimit |-> PreviewLimit]
          [] http.endpoint = "previewFilterData" ->
               /\ op' = "executeCohortQuery"
               /\ args' = [filters |-> filters, audienceConfig |-> StoredConfig,
                           limit |-> <<DefaultLimit>>,
                           connectionId |-> LimitAsConnectionId]
  /\ UNCHANGED <<defaultConnectionId, queries, pc, ret, history, requests,
                 cohortVars>>

\* the handler answers with what the adapter returned, or the error of the
\* adapter goes on to the error handlers (lines 515-518, 545-548, 587-591)
HandlerRespond ==
  /\ http.pc = "awaitingAdapter"
  /\ pc = "done"
  /\ http' = [http EXCEPT
                !.pc = "done",
                !.response = IF ret.status = "ok" THEN Response(200, ret)
                             ELSE ret]
  /\ UNCHANGED <<defaultConnectionId, queries, requestVars, requests,
                 cohortVars>>

NextController ==
  \/ CreateCohortHandler
  \/ FilterHandler
  \/ ServiceResume
  \/ HandlerRespond
  \/ ExecuteCohortQuery
  \/ ExecuteCohortQueryReturn
  \/ GetCohortCountsWithConfig
  \/ GetCohortCountsWithConfigReturn
  \/ GetCohortPreviewWithConfig
  \/ ExecutorResolve
  \/ ExecutorReject

SpecController == InitController /\ [][NextController]_vars

\* the request has handed its query to the executor
Submitted(r) == requests[r].query # 0

\* C15: a query run without an explicit connection id goes to the
\* connection id that the shared adapter holds when the request resumes,
\* whichever request has set it last, so that a request's query can be
\* executed against the connection id of the other request
C15_QueryUsesSharedDefault ==
  [][\A r \in Requests :
       (~Submitted(r) /\ Submitted(r)') =>
         queries'[requests'[r].query].connId =
           IF requests[r].explicit THEN requests[r].connectionId
           ELSE defaultConnectionId]_vars

C15_Witness ==
  /\ Submitted("r1")
  /\ ~requests["r1"].explicit
  /\ requests["r1"].connectionId = "conn1"
  /\ requests["r2"].connectionId = "conn2"
  /\ queries[requests["r1"].query].connId = "conn2"

(***************************************************************************)
(* Properties of the resolution of fields                                  *)
(***************************************************************************)
BuiltSingle == op = "buildSingleFilterCondition" /\ pc = "done"

\* the column of the condition: what follows the alias and the dot
Column == ret.text[Len(args.tableAlias) + 2]

InCatalog(field, fields) == \E k \in 1..Len(fields) : fields[k].name = field

\* C16 as stated: a field missing from the catalog but a key of the legacy
\* table is written with its legacy name, whether the catalog is empty or not
C16_Original ==
  (/\ BuiltSingle
   /\ ~InCatalog(args.filter.field, args.fields)
   /\ args.filter.field \in FieldMappingKeys) =>
    Column = mapFilterFieldToBigQueryField(args.filter.field)

\* C16: the legacy table is used only when the catalog is empty; with a
\* catalog that holds fields, the field of the filter is the column, as it
\* is written in the filter, whether the catalog holds it or not
C16_LegacyOnlyForEmptyCatalog ==
  BuiltSingle =>
    Column = IF Len(args.fields) = 0
             THEN mapFilterFieldToBigQueryField(args.filter.field)
             ELSE args.filter.field

C16_Witness ==
  /\ BuiltSingle
  /\ args.filter.field = "Account_country"
  /\ args.fields = CompanyFields
  /\ Column = "Account_country"

Filterable(field, fields) ==
  \E k \in 1..Len(fields) : fields[k].name = field /\ fields[k].isFilterable

\* the filters of a list, each with the object it is compiled against
Against(list, obj) == {<<list[i], obj>> : i \in 1..Len(list)}

\* the filters the compiled SQL of the request is to carry
Targets ==
  IF op \in {"generateCohortSQL", "executeCohortQuery"}
  THEN LET objects == args.audienceConfig.objects
       IN (IF Len(objects) > 0
           THEN Against(args.filters.companyFilters, objects[1]) ELSE {})
          \cup (IF Len(objects) > 1
                THEN Against(args.filters.contactFilters, objects[2]) ELSE {})
  ELSE IF op \in {"getCohortCountsWithConfig", "getCohortPreviewWithConfig"}
  THEN LET objects == args.audienceConfig.objects
           companyObject == FindObject(objects, CompanyMarker)
           contactObject == FindObject(objects, ContactMarker)
       IN IF Len(companyObject) = 0 \/ Len(contactObject) = 0 THEN {}
          ELSE Against(args.filters.companyFilters, companyObject[1])
               \cup Against(args.filters.contactFilters, contactObject[1])
  ELSE {}

\* the SQL the request has produced so far
SqlTexts ==
  (IF Generated THEN {ret.sql} ELSE {})
  \cup {queries[i].sql : i \in 1..Len(queries)}

\* the condition of the filter stands in the SQL
Reaches(t, sql) ==
  Includes(sql, buildSingleFilterCondition(t[1], t[2].alias,
                                           t[2].object.fields))

\* C17: every condition of the SQL of generateCohortSQL, of the count query
\* and of the preview queries is on a field that the catalog of the target
\* object holds as filterable; no other filter reaches the SQL
C17_OnlyFilterableFields ==
  \A t \in Targets : \A sql \in SqlTexts :
    Reaches(t, sql) => Filterable(t[1].field, t[2].object.fields)

(***************************************************************************)
(* Properties of the life of a cohort                                      *)
(***************************************************************************)
\* createCohort has returned and the work it started has come to its end
Settled == pc = "done" /\ Len(cohort) > 0 /\ job.pc \in {"none", "done"}

\* C18: a cohort that createCohort has stored leaves the status processing:
\* once the call and the computation it started have ended, the status is
\* active or error
C18_LeavesProcessing ==
  (op = "createCohort" /\ Settled) => cohort[1].status \in {"active", "error"}

\* the row was processed less than 24 hours before the time
Recent(row, time) ==
  Len(row.lastProcessedAt) > 0 /\ time - row.lastProcessedAt[1] < CacheHours

\* a call of getCohortCounts that found the cohort has ended
Served == call.pc = "done" /\ Len(call.seen) > 0

\* C19 as stated: the stored counts are returned exactly when the cohort
\* was processed less than 24 hours ago
C19_Original == Served => (call.hit <=> Recent(call.seen[1], call.at))

FromTable ==
  Served =>
    /\ call.hit <=>
         /\ Recent(call.seen[1], call.at)
         /\ Len(call.seen[1].companyCount) > 0
         /\ Len(call.seen[1].peopleCount) > 0
    /\ call.hit =>
         /\ call.query = 0
         /\ call.ret = [status |-> "ok",
                        companyCount |-> call.seen[1].companyCount[1],
                        peopleCount |-> call.seen[1].peopleCount[1]]
    /\ (~call.hit /\ call.ret.status = "ok") =>
         /\ call.query # 0
         /\ call.ret.companyCount = call.write[1]
         /\ call.ret.peopleCount = call.write[2]

StoredBeforeReturned ==
  (call.pc = "storing" /\ call'.pc = "done") =>
    /\ cohort'[1].companyCount = <<call'.ret.companyCount>>
    /\ cohort'[1].peopleCount = <<call'.ret.peopleCount>>
    /\ cohort'[1].lastProcessedAt = <<call.write[3]>>
    /\ call.write[3] >= call.at
    /\ cohort'[1].status = "active"

\* C19: getCohortCounts returns the stored counts without a query exactly
\* when neither stored count is null and the cohort was processed less than
\* 24 hours ago; in every other case it runs the count query and, when the
\* query succeeds, stores the fresh counts with a new lastProcessedAt and
\* the status active before it returns them
C19_CacheWithinDay == []FromTable /\ [][StoredBeforeReturned]_vars

C19_Witness ==
  /\ Served
  /\ call.hit
  /\ call.seen[1].lastProcessedAt = <<0>>
  /\ call.at = CacheHours - ClockStep
  /\ call.query = 0

(***************************************************************************)
(* Properties of the controller                                            *)
(***************************************************************************)
PresentNotArray(v) == v # Absent /\ ~IsArray(v)

\* C20: a request whose companyFilters or contactFilters is present but
\* not an array is rejected with a 400 error by each of the four
\* endpoints, with no cohort stored and no query compiled or run
C20_NonArrayRejected ==
  (/\ DOMAIN http = {"endpoint", "body", "pc", "response"}
   /\ http.pc # "received"
   /\ \/ PresentNotArray(http.body.companyFilters)
      \/ PresentNotArray(http.body.contactFilters)) =>
    /\ http.response.status = "error"
    /\ http.response.statusCode = 400
    /\ Len(cohort) = 0
    /\ Len(queries) = 0

(***************************************************************************)
(* The connection a query runs against                                     *)
(***************************************************************************)
QueryOps ==
  {"executeCohortQuery", "getCohortCountsWithConfig",
   "getCohortPreviewWithConfig"}

\* connectionId || this.defaultConnectionId, as the claim reads it
Effective ==
  IF args.connectionId # UNDEFINED THEN args.connectionId
  ELSE defaultConnectionId

\* the step in which a query operation runs up to its await or its throw
Called == op \in QueryOps /\ pc = "idle" /\ pc' # "idle"

\* C21: a query operation called without a connection id runs against the
\* default that was set, one called with a connection id runs against
\* that id, and the error "No BigQuery connection ID provided" is thrown
\* only when there is neither an explicit id nor a default
C21_ExplicitThenDefault ==
  [][Called =>
       /\ \A i \in 1..Len(queries') : queries'[i].connId = Effective
       /\ ret' = NoConnection => Effective = NULL]_vars

(***************************************************************************)
(* The three query shapes against one configuration                        *)
(***************************************************************************)
TwoStage ==
  /\ op \in {"getCohortCountsWithConfig", "getCohortPreviewWithConfig"}
  /\ pc = "awaiting"

\* the listing SQL for the filters and the configuration of the request
ListingOfRequest ==
  generateCohortSQL(args.filters, args.audienceConfig, <<>>)

\* the conditions the count and preview modes compile for one side
FragmentOf(side) ==
  LET marker == IF side = "company" THEN CompanyMarker ELSE ContactMarker
      obj == FindObject(args.audienceConfig.objects, marker)[1]
      list == IF side = "company" THEN args.filters.companyFilters
              ELSE args.filters.contactFilters
  IN buildFilterConditions(list, obj.alias, obj.object.fields)

\* the fragment is in the query of the request and, in parentheses, in the
\* listing SQL
Shared(fragment, query) ==
  /\ Includes(query.sql, <<"WHERE ">> \o fragment)
  /\ Includes(ListingOfRequest, <<"(">> \o fragment \o <<")">>)

\* C22: for the same filters and configuration the listing SQL holds the
\* same compiled conditions of companyFilters, and of contactFilters, as
\* the count and preview queries, whatever the order of the objects
C22_SameFragments ==
  TwoStage =>
    /\ Len(args.filters.companyFilters) > 0 =>
         Shared(FragmentOf("company"), queries[1])
    /\ Len(args.filters.contactFilters) > 0 =>
         Shared(FragmentOf("contact"), queries[Len(queries)])

(***************************************************************************)
(* A configuration without a company or a contact object                   *)
(***************************************************************************)
HasMarker(objects, marker) ==
  \E i \in 1..Len(objects) :
    \E k \in 1..Len(objects[i].object.fields) :
      objects[i].object.fields[k].name = marker

TwoStageOps == {"getCohortCountsWithConfig", "getCohortPreviewWithConfig"}

Unresolvable ==
  /\ op \in TwoStageOps
  /\ \/ ~HasMarker(args.audienceConfig.objects, CompanyMarker)
     \/ ~HasMarker(args.audienceConfig.objects, ContactMarker)

\* C23: when no object carries the company marker or none carries the
\* contact marker, the count and preview operations end in an error, hand
\* no query to the executor and return no count or preview
C23_MissingObjectFails ==
  Unresolvable =>
    /\ Len(queries) = 0
    /\ pc \in {"idle", "done"}
    /\ pc = "done" => ret \in {MissingObject, NoConnection}

C23_Witness ==
  /\ Unresolvable
  /\ Len(args.audienceConfig.objects) > 0
  /\ args.connectionId = "conn1"
  /\ pc = "done"
  /\ ret = MissingObject

(***************************************************************************)
(* The limit of the listing SQL                                            *)
(***************************************************************************)
\* C24: the listing SQL ends with LIMIT n exactly when the caller gives a
\* limit n, for every n >= 0, and holds no LIMIT when no limit is given
C24_LimitWhenSupplied ==
  Generated =>
    IF Len(args.limit) = 1
    THEN EndsWith(ret.sql, <<" LIMIT ">> \o NumToString(args.limit[1]))
    ELSE ~Includes(ret.sql, <<" LIMIT ">>)

(***************************************************************************)
(* The WHERE clause of the listing SQL                                     *)
(***************************************************************************)
\* the text from WHERE up to the LIMIT clause or the end; <<>> without WHERE
WherePart(sql) ==
  LET starts == {i \in 1..Len(sql) : sql[i] = " WHERE "}
      limits == {i \in 1..Len(sql) : sql[i] = " LIMIT "}
  IN IF starts = {} THEN <<>>
     ELSE SubSeq(sql, CHOOSE i \in starts : \A h \in starts : i <= h,
                 IF limits = {} THEN Len(sql)
                 ELSE (CHOOSE i \in limits : \A h \in limits : h <= i) - 1)

\* the number of operands of the AND connectors outside every parenthesis
RECURSIVE TopLevelParts(_, _, _)
TopLevelParts(text, i, depth) ==
  IF i > Len(text) THEN 1
  ELSE IF text[i] = "(" THEN TopLevelParts(text, i + 1, depth + 1)
  ELSE IF text[i] = ")" THEN TopLevelParts(text, i + 1, depth - 1)
  ELSE (IF text[i] = " AND " /\ depth = 0 THEN 1 ELSE 0)
       + TopLevelParts(text, i + 1, depth)

\* the conditions of a list compiled against the object at a position
CompiledAt(list, objects, k) ==
  <<"(">> \o buildFilterConditions(list, objects[k].alias,
                                   objects[k].object.fields) \o <<")">>

StartsWith(text, part) ==
  Len(part) <= Len(text) /\ SubSeq(text, 1, Len(part)) = part

\* C25: with at least one object the WHERE clause of the listing SQL is
\* (C) AND (P) when both lists have filters, (C) or (P) alone when the
\* other list is empty, and absent when both are empty; a list with
\* filters is never left out
C25_BothListsAnded ==
  (Generated /\ Len(args.audienceConfig.objects) >= 1) =>
    LET objects == args.audienceConfig.objects
        company == args.filters.companyFilters
        contact == args.filters.contactFilters
        where == WherePart(ret.sql)
    IN /\ where = <<>> <=> (Len(company) = 0 /\ Len(contact) = 0)
       /\ Len(where) > 0 =>
            TopLevelParts(where, 2, 0) =
              (IF Len(company) > 0 THEN 1 ELSE 0)
              + (IF Len(contact) > 0 THEN 1 ELSE 0)
       /\ Len(company) > 0 =>
            StartsWith(where, <<" WHERE ">> \o CompiledAt(company, objects, 1))
       /\ (Len(contact) > 0 /\ Len(objects) >= 2) =>
            EndsWith(where, CompiledAt(contact, objects, 2))

(***************************************************************************)
(* getAudienceWithDetails (src/src/storage/audienceStorage.ts, lines       *)
(* 281-302) with getRelationshipsBetweenObjects (lines 180-190).  The      *)
(* request holds the rows the tables return: the audience, the ids of its  *)
(* objects in the order of the rows, and the relationships table.          *)
(***************************************************************************)
ObjectIds == 1..MaxObjects

RelationshipRows == [fromObjectId : ObjectIds, toObjectId : ObjectIds]

RelationshipTables ==
  {t \in SUBSET RelationshipRows : Cardinality(t) <= MaxRelationships}

\* the objects of an audience, each object once, in the order of the rows
AudienceObjectIds ==
  {ids \in UNION {[1..k -> ObjectIds] : k \in 0..MaxObjects} :
     \A i, j \in 1..Len(ids) : i # j => ids[i] # ids[j]}

\* lines 180-190: where fromObjectId = objectIds[0]
getRelationshipsBetweenObjects(objectIds, table) ==
  IF Len(objectIds) < 2 THEN {}
  ELSE {r \in table : r.fromObjectId = objectIds[1]}

InitDetails ==
  /\ defaultConnectionId = NULL
  /\ op = "getAudienceWithDetails"
  /\ \E audience \in {NULL, "aud1"}, objectIds \in AudienceObjectIds,
        table \in RelationshipTables :
       args = [audience |-> audience, objectIds |-> objectIds,
               relationships |-> table]
  /\ pc = "idle"
  /\ ret = NoRet
  /\ history = <<>>
  /\ queries = <<>>
  /\ requests = <<>>
  /\ cohort = NULL
  /\ now = 0
  /\ job = <<>>
  /\ call = <<>>
  /\ countedFor = <<>>
  /\ http = <<>>

\* lines 281-302
GetAudienceWithDetails ==
  /\ op = "getAudienceWithDetails"
  /\ pc = "idle"
  /\ pc' = "done"
  /\ ret' = IF args.audience = NULL THEN [status |-> "null"]
            ELSE [status |-> "ok",
                  audience |-> args.audience,
                  objects |-> args.objectIds,
                  availableRelationships |->
                    getRelationshipsBetweenObjects(args.objectIds,
                                                   args.relationships)]
  /\ UNCHANGED <<defaultConnectionId, op, args, queries, history, serviceVars>>

NextDetails == GetAudienceWithDetails

SpecDetails == InitDetails /\ [][NextDetails]_vars

InAudience(id) == \E i \in 1..Len(args.objectIds) : args.objectIds[i] = id

\* C26: availableRelationships is exactly the set of relationships whose
\* two endpoint objects both belong to the audience, whatever the order
\* of the objects and the direction of the relationship, and is empty
\* when the audience has fewer than two objects
C26_BothEndpointsInAudience ==
  (op = "getAudienceWithDetails" /\ pc = "done" /\ ret.status = "ok") =>
    IF Len(args.objectIds) < 2 THEN ret.availableRelationships = {}
    ELSE ret.availableRelationships =
           {r \in args.relationships :
              InAudience(r.fromObjectId) /\ InAudience(r.toObjectId)}

(***************************************************************************)
(* The conditions of a compiled filter list                                *)
(***************************************************************************)
Glue == {"(", ")", " AND ", " OR "}

IsCondition(atom) == atom \notin Glue

\* the text without the connectors and the parentheses of the groups
Bare(text) == SelectSeq(text, IsCondition)

\* C27: the expression of buildFilterConditions holds one condition per
\* filter, in the order of the list: no filter is dropped, duplicated or
\* reordered, whatever the connectors and the groups
C27_OneConditionPerFilter ==
  Built => Bare(ret.text) = Bare(Flatten(Conds))

C27_Witness ==
  /\ Built
  /\ Len(args.filters) = 3
  /\ LogicalOps[1] # LogicalOps[2]
  /\ LogicalOps[2] = LogicalOps[3]
  /\ Cond(1) # Cond(2)
  /\ Cond(2) # Cond(3)
  /\ Cond(1) # Cond(3)
  /\ Bare(ret.text) = Cond(1) \o Cond(2) \o Cond(3)

(***************************************************************************)
(* The aliases of the listing SQL                                          *)
(***************************************************************************)
\* the text before FROM
SelectPart(sql) ==
  SubSeq(sql, 1, (CHOOSE i \in 1..Len(sql) :
                    /\ sql[i] = " FROM "
                    /\ \A h \in 1..(i - 1) : sql[h] # " FROM ") - 1)

\* a column of the object is named in the SELECT list or the WHERE clause
UsesAlias(sql, obj) ==
  \/ Includes(SelectPart(sql), obj.alias \o <<".">>)
  \/ Includes(WherePart(sql), obj.alias \o <<".">>)

\* the table of the object is named with the alias by FROM or by a JOIN
IntroducesAlias(sql, obj) ==
  Includes(sql, <<BT, "{project}", ".", obj.object.bigqueryTable, BT, " ">>
                \o obj.alias)

\* C28: every alias the listing SQL uses in its SELECT list or its WHERE
\* clause is introduced by its FROM clause or by one of its JOIN clauses
C28_AliasesIntroduced ==
  Generated =>
    \A k \in 1..Len(args.audienceConfig.objects) :
      UsesAlias(ret.sql, args.audienceConfig.objects[k]) =>
        IntroducesAlias(ret.sql, args.audienceConfig.objects[k])

(***************************************************************************)
(* The two parts of the count query                                        *)
(***************************************************************************)
\* the lexeme that ends the company_count expression and opens the
\* people_count subquery (lines 648-654)
PeopleStart ==
  " SELECT (SELECT COUNT(DISTINCT SalesForceID) FROM qualified_companies) AS company_count, ( SELECT COUNT(DISTINCT "

SplitAt(sql) == CHOOSE i \in 1..Len(sql) : sql[i] = PeopleStart

\* the qualified_companies CTE and the company_count expression
CompanyPartOf(sql) == SubSeq(sql, 1, SplitAt(sql))

\* the people_count subquery
PeoplePartOf(sql) == SubSeq(sql, SplitAt(sql) + 1, Len(sql))

\* the count query of a call that differs from the request in its
\* contactFilters only
CountSQLWith(contactFilters) ==
  CountSQL([companyFilters |-> args.filters.companyFilters,
            contactFilters |-> contactFilters],
           FindObject(args.audienceConfig.objects, CompanyMarker)[1],
           FindObject(args.audienceConfig.objects, ContactMarker)[1])

\* the condition compiled for the i-th contact filter of the request
ContactCond(i) ==
  LET obj == FindObject(args.audienceConfig.objects, ContactMarker)[1]
  IN buildSingleFilterCondition(args.filters.contactFilters[i], obj.alias,
                                obj.object.fields)

\* C29: in the count query, as it is handed to the executor, the
\* qualified_companies CTE and the company_count expression are the same
\* for every call that differs in contactFilters only, and the conditions
\* of contactFilters are in the people_count subquery and nowhere else
C29_CompanyCountIgnoresContacts ==
  (CountQueryBuilt /\ queries[1].status = "pending") =>
    /\ \A contactFilters \in SideFilterLists :
         CompanyPartOf(CountSQLWith(contactFilters))
           = CompanyPartOf(queries[1].sql)
    /\ \A i \in 1..Len(args.filters.contactFilters) :
         /\ Includes(PeoplePartOf(queries[1].sql), ContactCond(i))
         /\ ~Includes(CompanyPartOf(queries[1].sql), ContactCond(i))

C29_Witness ==
  /\ CountQueryBuilt
  /\ queries[1].status = "pending"
  /\ Len(args.filters.companyFilters) > 0
  /\ Len(args.filters.contactFilters) > 0
  /\ args.filters.companyFilters # args.filters.contactFilters
  /\ CountSQLWith(<<>>) # queries[1].sql

(***************************************************************************)
(* A cohort whose filters are changed (AudienceService.updateCohort, lines *)
(* 134-136, with audienceStorage.updateCohort, lines 227-237), next to the *)
(* background count job of createCohort and the calls of getCohortCounts.  *)
(***************************************************************************)
\* the filters a PUT gives the cohort
ChangedFilters ==
  [companyFilters |-> <<>>, contactFilters |-> <<TitleHasDirector>>]

\* updateCohort with new filters: the given columns are set, the counts
\* and lastProcessedAt stay as they are
UpdateCohortFilters ==
  /\ Len(cohort) > 0
  /\ cohort' = <<updateCohort(cohort[1], [filters |-> ChangedFilters])>>
  /\ cohort' # cohort
  /\ UNCHANGED <<defaultConnectionId, queries, requestVars, requests, http, now,
                 job, call, countedFor>>

NextFilters ==
  \/ AudienceServiceCreateCohort
  \/ ProcessCohortCountsResume
  \/ ProcessCohortCountsStored
  \/ ProcessCohortCountsFailed
  \/ CreateCohortCatch
  \/ GetCohortCounts
  \/ GetCohortCountsFound
  \/ GetCohortCountsResume
  \/ GetCohortCountsStored
  \/ UpdateCohortFilters
  \/ Tick
  \/ ExecutorResolve
  \/ ExecutorReject

SpecFilters == InitCohort /\ [][NextFilters]_vars

\* the step in which a call of getCohortCounts returns counts
ReturnsCounts ==
  call.pc # "done" /\ call'.pc = "done" /\ call'.ret.status = "ok"

\* the call read the row when it held the filters it holds now
ReadCurrentFilters == call'.seen[1].filters = cohort'[1].filters

\* the count query the returned counts are the result of
SourceOfCounts ==
  IF call'.hit THEN countedFor ELSE <<queries[call.query].sql>>

\* C30: the counts a call of getCohortCounts returns are computed for the
\* filters of the cohort: once updateCohort has changed the filters, a
\* call that reads the cohort afterwards never returns counts of a query
\* compiled from the earlier filters
C30_CountsOfCurrentFilters ==
  [][(ReturnsCounts /\ ReadCurrentFilters) =>
       SourceOfCounts = <<CohortCountSQL(cohort'[1].filters)>>]_vars

====
